---------------------------- MODULE Spec2Model ----------------------------
(***************************************************************************)
(* Model of the wiki sync action: CircuitBreaker and ErrorHandler          *)
(* (src/error-handler.ts), TransactionManager and PartialFailureHandler    *)
(* (src/transaction-manager.ts), the name conversions of FileHandler       *)
(* (src/file-handler.ts) and SyncEngine (src/sync-engine.ts).              *)
(*                                                                         *)
(* Every component has its own specification (CBSpec, PFHSpec, TMSpec,     *)
(* EHSpec, FHSpec, SESpec) over the shared variable tuple; a component's   *)
(* actions leave the other components' variables unchanged.  CPSpec is the *)
(* manager creating checkpoints from any listings, and SESpec runs the     *)
(* engine with the components it calls.                                    *)
(***************************************************************************)
EXTENDS Integers, Sequences, FiniteSets, TLC

(***************************************************************************)
(* Bounds of the model.                                                    *)
(***************************************************************************)
MaxTime == 5
MaxThreshold == 2
MaxTimeout == 1

MaxFailureThreshold == 2
MaxTransactions == 2
MaxCheckpoints == 2
MaxFiles == 2
MaxOperations == 1

VARIABLES
    \* clock read by Date.now()
    now,
    \* CircuitBreaker fields and constructor parameters
    failureCount, lastFailureTime, state, threshold, timeout,
    \* position of the single caller of CircuitBreaker.execute
    cbPc,
    \* record of the latest execute() call and of the failed calls since the
    \* breaker was constructed or last reset
    cbCall, cbFailedCalls,
    \* PartialFailureHandler fields and constructor parameters
    successfulOperations, failedOperations, continueOnError,
    maxFailureThreshold,
    \* record of the latest handler call, the outcome of the latest
    \* recordFailure call, and the number of calls made
    pfhCall, lastRecordFailure, recordSuccessCalls, recordFailureCalls,
    \* TransactionManager fields: the open transaction (or NoTransaction) and
    \* the map from fingerprint to checkpoint
    transaction, checkpoints,
    \* the files of the primary repository as the GitHub API serves them
    remote,
    \* source of crypto.randomUUID()
    nextId,
    \* record of the latest manager call, the transaction object detached by
    \* the latest commit or rollback, and the number of checkpoints created
    tmCall, closedTx, checkpointCalls,
    \* latest ErrorHandler.classify call: its argument and the ErrorContext
    \* it returned
    ehError, ehContext,
    \* one ErrorHandler.retryWithBackoff call: its parameters, its locals
    \* `attempt` and `lastError`, the position of its loop, the errors of the
    \* operation's invocations, the waits it inserted and what it raised
    maxRetries, baseDelay, attempt, lastError, rwPc, rwInvocations, rwErrors,
    rwDelays, rwRaised,
    \* SyncEngine: its configuration, the markdown files of the checkout
    \* (the primary store as the engine reads it), the wiki repository, and
    \* this.wikiPath with the working copy cloned there
    config, disk, wiki, wikiPath, workingCopy,
    \* one sync() call: its position, the detected changes and the index of
    \* the change being applied, the locals `result` and `transactionId`, the
    \* error caught by the outer catch block
    sePc, changes, changeIndex, result, transactionId, syncError,
    \* what the latest finished sync() call gave its caller, the number of
    \* sync() calls made, the number of injected failures, and the writes
    \* the apply steps of the current call made
    syncCall, runs, injected, applyLog,
    \* the calls made to the name conversions of FileHandler, each with its
    \* arguments and its return value
    fhCalls

cbVars == <<now, failureCount, lastFailureTime, state, threshold, timeout,
            cbPc, cbCall, cbFailedCalls>>

pfhVars == <<successfulOperations, failedOperations, continueOnError,
             maxFailureThreshold, pfhCall, lastRecordFailure,
             recordSuccessCalls, recordFailureCalls>>

tmVars == <<transaction, checkpoints, remote, nextId, tmCall, closedTx,
            checkpointCalls>>

ehVars == <<ehError, ehContext, maxRetries, baseDelay, attempt, lastError,
            rwPc, rwInvocations, rwErrors, rwDelays, rwRaised>>

seVars == <<config, disk, wiki, wikiPath, workingCopy, sePc, changes,
            changeIndex, result, transactionId, syncError, syncCall, runs,
            injected, applyLog>>

fhVars == <<fhCalls>>

vars == <<cbVars, pfhVars, tmVars, ehVars, seVars, fhVars>>

\* file contents are short texts; `undefined` is an absent optional field
c1 == <<1>>
c2 == <<2>>
Contents == {c1, c2}
undefined == <<>>
Paths == {"f1", "f2"}

\* SyncOperation values handed to recordOperation / recordSuccess /
\* recordFailure
SyncOperations ==
    { [type |-> "create", path |-> "f1", content |-> c1,
       previousContent |-> undefined],
      [type |-> "update", path |-> "f2", content |-> c2,
       previousContent |-> c1] }

\* the manager's `transaction` field when it is null
NoTransaction ==
    [id |-> 0, operations |-> <<>>, status |-> "none", checkpoints |-> <<>>]

\* a path the repository does not hold
Absent == [present |-> FALSE, content |-> undefined]

RemoteFiles == {Absent} \cup {[present |-> TRUE, content |-> c] : c \in Contents}

EmptyMap == [h \in {} |-> 0]

NoManagerCall(r) ==
    [name |-> "none", outcome |-> "none", wasOpen |-> FALSE,
     remoteLog |-> <<>>, remoteBefore |-> r]

\* the manager of a behaviour that does not use it
TMIdle ==
    /\ transaction = NoTransaction
    /\ checkpoints = EmptyMap
    /\ remote = [p \in Paths |-> Absent]
    /\ nextId = 1
    /\ tmCall = NoManagerCall(remote)
    /\ closedTx = NoTransaction
    /\ checkpointCalls = 0

\* an error value without `status` property and without `code` property
NoStatus == [type |-> "absent", value |-> 0, text |-> ""]
NoCode == "absent"

\* `undefined` as an error value, and the context of no classify call
NoError ==
    [kind |-> "undefined", status |-> NoStatus, code |-> NoCode,
     hasMessage |-> FALSE, message |-> <<>>]
NoContext ==
    [type |-> "none", message |-> <<>>, details |-> NoError,
     retryable |-> FALSE, fatal |-> FALSE]

\* the error handler of a behaviour that does not use it
EHIdle ==
    /\ ehError = NoError
    /\ ehContext = NoContext
    /\ maxRetries = 0
    /\ baseDelay = 0
    /\ attempt = 0
    /\ lastError = NoError
    /\ rwPc = "idle"
    /\ rwInvocations = 0
    /\ rwErrors = <<>>
    /\ rwDelays = <<>>
    /\ rwRaised = NoError

\* the result object of no sync() call, and what no call gave its caller
NoResult ==
    [success |-> TRUE, changesApplied |-> 0, errors |-> <<>>, summary |-> ""]
NoPrevious ==
    [outcome |-> "none", clean |-> TRUE, kinds |-> {},
     breaker |-> [state |-> "CLOSED", failureCount |-> 0]]
NoSyncCall ==
    [outcome |-> "none", error |-> NoError, result |-> NoResult,
     rollback |-> "none", cleanup |-> "none", push |-> "none",
     previous |-> NoPrevious]

\* a directory that does not exist
NoDirectory == [f \in {} |-> Absent]

\* the engine of a behaviour that does not use it
SEIdle ==
    /\ config = [syncFolder |-> <<"docs">>, conflictStrategy |-> "repo-wins",
                 syncDeletes |-> TRUE]
    /\ disk = NoDirectory
    /\ wiki = NoDirectory
    /\ wikiPath = "null"
    /\ workingCopy = NoDirectory
    /\ sePc = "idle"
    /\ changes = <<>>
    /\ changeIndex = 1
    /\ result = NoResult
    /\ transactionId = 0
    /\ syncError = NoError
    /\ syncCall = NoSyncCall
    /\ runs = 0
    /\ injected = 0
    /\ applyLog = <<>>

\* the file handler of a behaviour that converts nothing
FHIdle == fhCalls = <<>>

-----------------------------------------------------------------------------
(***************************************************************************)
(* CircuitBreaker                                                          *)
(***************************************************************************)
\* the handler of a breaker-only behaviour is never used
NoHandlerCall ==
    [name |-> "none", outcome |-> "none", shouldContinue |-> FALSE,
     successCount |-> 0, failureCount |-> 0]

PFHIdle ==
    /\ successfulOperations = <<>>
    /\ failedOperations = <<>>
    /\ continueOnError = TRUE
    /\ maxFailureThreshold = 0
    /\ pfhCall = NoHandlerCall
    /\ lastRecordFailure = "none"
    /\ recordSuccessCalls = 0
    /\ recordFailureCalls = 0

NoCall ==
    [preState |-> "CLOSED", preLast |-> 0, at |-> 0, endAt |-> 0,
     invoked |-> FALSE, outcome |-> "none", preCount |-> 0, streak |-> 0]

CBInit ==
    /\ now = 0
    /\ failureCount = 0
    /\ lastFailureTime = 0
    /\ state = "CLOSED"
    /\ threshold \in 1..MaxThreshold
    /\ timeout \in 0..MaxTimeout
    /\ cbPc = "idle"
    /\ cbCall = NoCall
    /\ cbFailedCalls = 0
    /\ PFHIdle
    /\ TMIdle
    /\ EHIdle
    /\ SEIdle
    /\ FHIdle

\* Date.now() advances; the operation passed to execute() may take time.
Tick ==
    /\ now < MaxTime
    /\ now' = now + 1
    /\ UNCHANGED <<failureCount, lastFailureTime, state, threshold, timeout,
                   cbPc, cbCall, cbFailedCalls>>

\* the OPEN test at the head of execute(): TRUE when the trial call is let
\* through
timeoutElapsed == now - lastFailureTime > timeout

\* faulty variant: counts the failure but never refreshes lastFailureTime
CircuitBreaker_recordFailure_staleTime ==
    /\ failureCount' = failureCount + 1
    /\ lastFailureTime' = lastFailureTime
    /\ state' = IF failureCount' >= threshold THEN "OPEN" ELSE state

\* faulty variant: opens only when the count exceeds the threshold
CircuitBreaker_recordFailure_strict ==
    /\ failureCount' = failureCount + 1
    /\ lastFailureTime' = now
    /\ state' = IF failureCount' > threshold THEN "OPEN" ELSE state

CircuitBreaker_recordFailure ==
    /\ failureCount' = failureCount + 1
    /\ lastFailureTime' = now
    /\ state' = IF failureCount' >= threshold THEN "OPEN" ELSE state

\* faulty variant: closes the breaker but keeps the failure count
reset_keepCount ==
    /\ failureCount' = failureCount
    /\ state' = "CLOSED"

reset ==
    /\ failureCount' = 0
    /\ state' = "CLOSED"

\* faulty variant: a call rejected by the OPEN breaker is recorded as a
\* failure
executeEnter_countsRejection ==
    /\ cbPc = "idle"
    /\ IF state = "OPEN"
       THEN IF timeoutElapsed
            THEN /\ state' = "HALF_OPEN"
                 /\ cbPc' = "running"
                 /\ cbCall' = [preState |-> state, preLast |-> lastFailureTime,
                               at |-> now, endAt |-> now, invoked |-> TRUE,
                               outcome |-> "pending",
                               preCount |-> failureCount,
                               streak |-> cbCall.streak]
                 /\ UNCHANGED <<failureCount, lastFailureTime>>
            ELSE /\ CircuitBreaker_recordFailure
                 /\ cbPc' = "idle"
                 /\ cbCall' = [preState |-> state, preLast |-> lastFailureTime,
                               at |-> now, endAt |-> now, invoked |-> FALSE,
                               outcome |-> "Circuit breaker is OPEN",
                               preCount |-> failureCount,
                               streak |-> cbCall.streak]
       ELSE /\ state' = state
            /\ cbPc' = "running"
            /\ cbCall' = [preState |-> state, preLast |-> lastFailureTime,
                          at |-> now, endAt |-> now, invoked |-> TRUE,
                          outcome |-> "pending",
                          preCount |-> failureCount,
                          streak |-> cbCall.streak]
            /\ UNCHANGED <<failureCount, lastFailureTime>>
    /\ UNCHANGED <<now, threshold, timeout, cbFailedCalls>>

\* execute(): the part before `await operation()`
executeEnter ==
    /\ cbPc = "idle"
    /\ IF state = "OPEN"
       THEN IF timeoutElapsed
            THEN /\ state' = "HALF_OPEN"
                 /\ cbPc' = "running"
                 /\ cbCall' = [preState |-> state, preLast |-> lastFailureTime,
                               at |-> now, endAt |-> now, invoked |-> TRUE,
                               outcome |-> "pending",
                               preCount |-> failureCount,
                               streak |-> cbCall.streak]
            ELSE /\ state' = state
                 /\ cbPc' = "idle"
                 /\ cbCall' = [preState |-> state, preLast |-> lastFailureTime,
                               at |-> now, endAt |-> now, invoked |-> FALSE,
                               outcome |-> "Circuit breaker is OPEN",
                               preCount |-> failureCount,
                               streak |-> cbCall.streak]
       ELSE /\ state' = state
            /\ cbPc' = "running"
            /\ cbCall' = [preState |-> state, preLast |-> lastFailureTime,
                          at |-> now, endAt |-> now, invoked |-> TRUE,
                          outcome |-> "pending",
                          preCount |-> failureCount,
                          streak |-> cbCall.streak]
    /\ UNCHANGED <<now, failureCount, lastFailureTime, threshold, timeout,
                   cbFailedCalls>>

\* faulty variant: a resolved operation clears the count in every state
executeReturn_clearsCount ==
    /\ cbPc = "running"
    /\ reset
    /\ cbFailedCalls' = 0
    /\ cbPc' = "idle"
    /\ cbCall' = [cbCall EXCEPT !.outcome = "result", !.endAt = now,
                                !.streak = 0]
    /\ UNCHANGED <<now, lastFailureTime, threshold, timeout>>

\* execute(): the operation resolved
executeReturn ==
    /\ cbPc = "running"
    /\ IF state = "HALF_OPEN"
       THEN /\ reset
            /\ cbFailedCalls' = 0
       ELSE UNCHANGED <<failureCount, state, cbFailedCalls>>
    /\ cbPc' = "idle"
    /\ cbCall' = [cbCall EXCEPT !.outcome = "result", !.endAt = now,
                                !.streak = 0]
    /\ UNCHANGED <<now, lastFailureTime, threshold, timeout>>

\* execute(): the operation rejected; the error is rethrown
executeThrow ==
    /\ cbPc = "running"
    /\ CircuitBreaker_recordFailure
    /\ cbFailedCalls' = cbFailedCalls + 1
    /\ cbPc' = "idle"
    /\ cbCall' = [cbCall EXCEPT !.outcome = "operation error", !.endAt = now,
                                !.streak = @ + 1]
    /\ UNCHANGED <<now, threshold, timeout>>

CBNext ==
    \/ Tick /\ UNCHANGED <<pfhVars, tmVars, ehVars, seVars, fhVars>>
    \/ executeEnter /\ UNCHANGED <<pfhVars, tmVars, ehVars, seVars, fhVars>>
    \/ executeReturn /\ UNCHANGED <<pfhVars, tmVars, ehVars, seVars, fhVars>>
    \/ executeThrow /\ UNCHANGED <<pfhVars, tmVars, ehVars, seVars, fhVars>>

CBSpec == CBInit /\ [][CBNext]_vars

\* C1: for a breaker with threshold N >= 1, once N executed operations have
\* failed the breaker is OPEN, and an execute() made while it is OPEN and no
\* more than `timeout` after the last recorded failure raises
\* 'Circuit breaker is OPEN' without invoking the operation.
C1_OpensAtThresholdAndFailsFast ==
    /\ (cbPc = "idle" /\ cbFailedCalls >= threshold) => state = "OPEN"
    /\ (cbCall.preState = "OPEN" /\ cbCall.at - cbCall.preLast <= timeout)
          => (cbCall.outcome = "Circuit breaker is OPEN" /\ ~cbCall.invoked)

C1_Witness ==
    /\ threshold > 1
    /\ cbFailedCalls = threshold
    /\ cbCall.outcome = "Circuit breaker is OPEN"
    /\ cbCall.at > cbCall.preLast

\* C2: an execute() made while OPEN and more than `timeout` after the last
\* recorded failure moves the breaker to HALF_OPEN and invokes the operation;
\* when that trial succeeds the breaker is CLOSED with failure count 0 and the
\* result is returned.
C2_TrialAfterTimeoutResets ==
    (cbCall.preState = "OPEN" /\ cbCall.at - cbCall.preLast > timeout)
      => /\ cbCall.invoked
         /\ cbPc = "running" => state = "HALF_OPEN"
         /\ (cbPc = "idle" /\ cbCall.outcome # "operation error")
               => (cbCall.outcome = "result" /\ state = "CLOSED"
                   /\ failureCount = 0)

C2_Witness ==
    /\ cbCall.preState = "OPEN"
    /\ cbCall.outcome = "result"
    /\ cbPc = "idle"
    /\ threshold > 1

\* C3: when the trial operation run in HALF_OPEN fails, the breaker is OPEN
\* again after the call, lastFailureTime is the time of that failure, and the
\* operation's own error is the one raised.
C3_TrialFailureReopens ==
    (cbCall.preState = "OPEN" /\ cbCall.invoked /\ cbPc = "idle"
       /\ cbCall.outcome # "result")
      => /\ state = "OPEN"
         /\ lastFailureTime = cbCall.endAt
         /\ cbCall.outcome = "operation error"

C3_Witness ==
    /\ cbCall.preState = "OPEN"
    /\ cbCall.outcome = "operation error"
    /\ cbCall.endAt > cbCall.at
    /\ cbPc = "idle"

-----------------------------------------------------------------------------
(***************************************************************************)
(* PartialFailureHandler                                                   *)
(***************************************************************************)
\* calls made on one handler in a behaviour
MaxRecords == MaxFailureThreshold + 2

\* errors handed to recordFailure
Errors == {"Update failed"}

\* the breaker of a handler-only behaviour is never used
CBIdle ==
    /\ now = 0
    /\ failureCount = 0
    /\ lastFailureTime = 0
    /\ state = "CLOSED"
    /\ threshold = 1
    /\ timeout = 0
    /\ cbPc = "idle"
    /\ cbCall = NoCall
    /\ cbFailedCalls = 0

\* new PartialFailureHandler(continueOnError, maxFailureThreshold)
PFHInit ==
    /\ successfulOperations = <<>>
    /\ failedOperations = <<>>
    /\ continueOnError \in BOOLEAN
    /\ maxFailureThreshold \in 0..MaxFailureThreshold
    /\ pfhCall = NoHandlerCall
    /\ lastRecordFailure = "none"
    /\ recordSuccessCalls = 0
    /\ recordFailureCalls = 0
    /\ CBIdle
    /\ TMIdle
    /\ EHIdle
    /\ SEIdle
    /\ FHIdle

recordSuccess(operation) ==
    /\ successfulOperations' = Append(successfulOperations, operation)
    /\ recordSuccessCalls' = recordSuccessCalls + 1
    /\ pfhCall' = [NoHandlerCall EXCEPT !.name = "recordSuccess",
                                        !.outcome = "returned"]
    /\ UNCHANGED <<failedOperations, continueOnError, maxFailureThreshold,
                   lastRecordFailure, recordFailureCalls>>

\* faulty variant: raises as soon as the threshold is reached
PartialFailureHandler_recordFailure_atThreshold(operation, error) ==
    /\ failedOperations' =
         Append(failedOperations, [operation |-> operation, error |-> error])
    /\ recordFailureCalls' = recordFailureCalls + 1
    /\ lastRecordFailure' =
         IF Len(failedOperations') >= maxFailureThreshold
         THEN "Maximum failure threshold exceeded"
         ELSE "returned"
    /\ pfhCall' = [NoHandlerCall EXCEPT !.name = "recordFailure",
                                        !.outcome = lastRecordFailure']
    /\ UNCHANGED <<successfulOperations, continueOnError, maxFailureThreshold,
                   recordSuccessCalls>>

\* faulty variant: records the failure and never raises
PartialFailureHandler_recordFailure_silent(operation, error) ==
    /\ failedOperations' =
         Append(failedOperations, [operation |-> operation, error |-> error])
    /\ recordFailureCalls' = recordFailureCalls + 1
    /\ lastRecordFailure' = "returned"
    /\ pfhCall' = [NoHandlerCall EXCEPT !.name = "recordFailure",
                                        !.outcome = lastRecordFailure']
    /\ UNCHANGED <<successfulOperations, continueOnError, maxFailureThreshold,
                   recordSuccessCalls>>

PartialFailureHandler_recordFailure(operation, error) ==
    /\ failedOperations' =
         Append(failedOperations, [operation |-> operation, error |-> error])
    /\ recordFailureCalls' = recordFailureCalls + 1
    /\ lastRecordFailure' =
         IF Len(failedOperations') > maxFailureThreshold
         THEN "Maximum failure threshold exceeded"
         ELSE "returned"
    /\ pfhCall' = [NoHandlerCall EXCEPT !.name = "recordFailure",
                                        !.outcome = lastRecordFailure']
    /\ UNCHANGED <<successfulOperations, continueOnError, maxFailureThreshold,
                   recordSuccessCalls>>

\* faulty variant: stops when the threshold is reached
shouldContinue_belowThreshold ==
    continueOnError /\ Len(failedOperations) < maxFailureThreshold

shouldContinue ==
    continueOnError /\ Len(failedOperations) <= maxFailureThreshold

getSummary ==
    [successCount |-> Len(successfulOperations),
     failureCount |-> Len(failedOperations),
     failedOperations |-> failedOperations]

\* a caller reads shouldContinue()
shouldContinueCall ==
    /\ pfhCall' = [NoHandlerCall EXCEPT !.name = "shouldContinue",
                                        !.outcome = "returned",
                                        !.shouldContinue = shouldContinue]
    /\ UNCHANGED <<successfulOperations, failedOperations, continueOnError,
                   maxFailureThreshold, lastRecordFailure, recordSuccessCalls,
                   recordFailureCalls>>

\* a caller reads getSummary()
getSummaryCall ==
    /\ pfhCall' = [NoHandlerCall EXCEPT !.name = "getSummary",
                                        !.outcome = "returned",
                                        !.successCount = getSummary.successCount,
                                        !.failureCount = getSummary.failureCount]
    /\ UNCHANGED <<successfulOperations, failedOperations, continueOnError,
                   maxFailureThreshold, lastRecordFailure, recordSuccessCalls,
                   recordFailureCalls>>

PFHNext ==
    \/ \E operation \in SyncOperations :
         /\ recordSuccessCalls < MaxRecords
         /\ recordSuccess(operation)
         /\ UNCHANGED <<cbVars, tmVars, ehVars, seVars, fhVars>>
    \/ \E operation \in SyncOperations, error \in Errors :
         /\ recordFailureCalls < MaxRecords
         /\ PartialFailureHandler_recordFailure(operation, error)
         /\ UNCHANGED <<cbVars, tmVars, ehVars, seVars, fhVars>>
    \/ shouldContinueCall /\ UNCHANGED <<cbVars, tmVars, ehVars, seVars, fhVars>>
    \/ getSummaryCall /\ UNCHANGED <<cbVars, tmVars, ehVars, seVars, fhVars>>

PFHSpec == PFHInit /\ [][PFHNext]_vars

\* C9: with maxFailureThreshold T the first T recordFailure calls return
\* normally and the call that makes the failure list longer than T raises
\* 'Maximum failure threshold exceeded'; the list never holds more than T
\* entries unless the latest recordFailure call raised.
C9_RecordFailureRaisesPastThreshold ==
    /\ (recordFailureCalls >= 1 /\ recordFailureCalls <= maxFailureThreshold)
         => lastRecordFailure = "returned"
    /\ recordFailureCalls > maxFailureThreshold
         => lastRecordFailure = "Maximum failure threshold exceeded"
    /\ Len(failedOperations) > maxFailureThreshold
         => lastRecordFailure = "Maximum failure threshold exceeded"

C9_Witness ==
    /\ maxFailureThreshold = 2
    /\ recordFailureCalls = 3
    /\ Len(failedOperations) = 3
    /\ pfhCall.name = "recordFailure"
    /\ pfhCall.outcome = "Maximum failure threshold exceeded"

\* C10: shouldContinue() returns TRUE exactly when continueOnError holds and
\* the number of recordFailure calls made is at most maxFailureThreshold, and
\* getSummary() reports the numbers of recordSuccess and recordFailure calls
\* made.
C10_ShouldContinueAndSummary ==
    /\ pfhCall.name = "shouldContinue"
         => (pfhCall.shouldContinue
               <=> (continueOnError
                      /\ recordFailureCalls <= maxFailureThreshold))
    /\ pfhCall.name = "getSummary"
         => (/\ pfhCall.successCount = recordSuccessCalls
             /\ pfhCall.failureCount = recordFailureCalls)

C10_Witness ==
    /\ pfhCall.name = "shouldContinue"
    /\ pfhCall.shouldContinue
    /\ maxFailureThreshold = 2
    /\ recordFailureCalls = 2
    /\ recordSuccessCalls = 1

-----------------------------------------------------------------------------
(***************************************************************************)
(* TransactionManager                                                      *)
(***************************************************************************)
\* Git names a blob by a digest of its content: the sha getFileContent
\* returns for a file holding c.  A local file read from disk has no sha;
\* getCurrentRepoState records '' for it.
BlobSha(c) == <<40>> \o c
EmptySha == <<>>

\* the order in which a directory listing yields the paths
PathOrder == <<"f1", "f2">>
PathIndex(p) == CHOOSE i \in 1..Len(PathOrder) : PathOrder[i] = p

\* FileState values: a path, its content and either the blob's sha or ''
FileStates ==
    { [path |-> "f1", sha |-> BlobSha(c1), content |-> c1],
      [path |-> "f2", sha |-> EmptySha, content |-> c2] }

\* repoFiles arguments of createCheckpoint: listings of at most MaxFiles
\* files, each path once
RepoSnapshots ==
    { f \in UNION { [1..n -> FileStates] : n \in 0..MaxFiles } :
        \A i, j \in 1..Len(f) :
           i < j => PathIndex(f[i].path) < PathIndex(f[j].path) }

\* wikiFiles arguments of createCheckpoint
WikiSnapshots == { <<[name |-> "Home", content |-> c1]>> }

Min(a, b) == IF a < b THEN a ELSE b

HashPrefixLen == 100

\* faulty variant: the digest is taken over the records as sets, whatever
\* their order in the listings
calculateHash_unordered(repoFiles, wikiFiles) ==
    << {[path |-> repoFiles[i].path, sha |-> repoFiles[i].sha] :
          i \in 1..Len(repoFiles)},
       {[name |-> wikiFiles[i].name,
         content |-> SubSeq(wikiFiles[i].content, 1,
                            Min(Len(wikiFiles[i].content), HashPrefixLen))] :
          i \in 1..Len(wikiFiles)} >>

\* calculateHash: the digest is taken over the serialised list of
\* {path, sha} and {name, first 100 characters of content}; the model keeps
\* the serialised value itself
calculateHash(repoFiles, wikiFiles) ==
    << [i \in 1..Len(repoFiles) |->
          [path |-> repoFiles[i].path, sha |-> repoFiles[i].sha]],
       [i \in 1..Len(wikiFiles) |->
          [name |-> wikiFiles[i].name,
           content |-> SubSeq(wikiFiles[i].content, 1,
                              Min(Len(wikiFiles[i].content), HashPrefixLen))]] >>

isInTransaction == transaction # NoTransaction

ManagerCall(name, outcome, log) ==
    [name |-> name, outcome |-> outcome, wasOpen |-> isInTransaction,
     remoteLog |-> log, remoteBefore |-> remote]

TMInit ==
    /\ transaction = NoTransaction
    /\ checkpoints = EmptyMap
    /\ remote \in [Paths -> RemoteFiles]
    /\ nextId = 1
    /\ tmCall = NoManagerCall(remote)
    /\ closedTx = NoTransaction
    /\ checkpointCalls = 0
    /\ CBIdle
    /\ PFHIdle
    /\ EHIdle
    /\ SEIdle
    /\ FHIdle

\* files of the repository change between the calls on the manager: the
\* running sync creates files, other users edit or delete them
remoteChanges(p, f) ==
    /\ remote[p] # f
    /\ remote' = [remote EXCEPT ![p] = f]
    /\ tmCall' = [NoManagerCall(remote') EXCEPT !.name = "remoteChanges"]
    /\ UNCHANGED <<transaction, checkpoints, nextId, closedTx,
                   checkpointCalls>>

beginTransaction ==
    /\ transaction' = [id |-> nextId, operations |-> <<>>,
                       status |-> "pending", checkpoints |-> <<>>]
    /\ nextId' = nextId + 1
    /\ tmCall' = ManagerCall("beginTransaction", "returned", <<>>)
    /\ closedTx' = NoTransaction
    /\ UNCHANGED <<checkpoints, checkpointCalls>>

createCheckpoint(repoFiles, wikiFiles) ==
    IF ~isInTransaction
    THEN /\ tmCall' = ManagerCall("createCheckpoint", "No active transaction",
                                  <<>>)
         /\ UNCHANGED <<transaction, checkpoints, nextId, closedTx,
                        checkpointCalls>>
    ELSE LET checkpoint ==
               [timestamp |-> now, repoState |-> repoFiles,
                wikiState |-> wikiFiles,
                hash |-> calculateHash(repoFiles, wikiFiles)]
         IN /\ checkpointCalls' = checkpointCalls + 1
            /\ transaction' =
                 [transaction EXCEPT
                    !.checkpoints = Append(@, checkpoint)]
            /\ checkpoints' =
                 [h \in DOMAIN checkpoints \cup {checkpoint.hash} |->
                    IF h = checkpoint.hash THEN checkpoint ELSE checkpoints[h]]
            /\ tmCall' = ManagerCall("createCheckpoint", "returned", <<>>)
            /\ UNCHANGED <<nextId, closedTx>>

recordOperation(operation) ==
    IF ~isInTransaction
    THEN /\ tmCall' = ManagerCall("recordOperation", "No active transaction",
                                  <<>>)
         /\ UNCHANGED <<transaction, checkpoints, nextId, closedTx,
                        checkpointCalls>>
    ELSE /\ transaction' =
              [transaction EXCEPT !.operations = Append(@, operation)]
         /\ tmCall' = ManagerCall("recordOperation", "returned", <<>>)
         /\ UNCHANGED <<checkpoints, nextId, closedTx, checkpointCalls>>

\* faulty variant: commits without testing for an open transaction
commit_unguarded ==
    /\ closedTx' = [transaction EXCEPT !.status = "committed"]
    /\ transaction' = NoTransaction
    /\ tmCall' = ManagerCall("commit", "returned", <<>>)
    /\ UNCHANGED <<checkpoints, nextId, checkpointCalls>>

commit ==
    IF ~isInTransaction
    THEN /\ tmCall' = ManagerCall("commit", "No active transaction", <<>>)
         /\ UNCHANGED <<transaction, checkpoints, nextId, closedTx,
                        checkpointCalls>>
    ELSE /\ closedTx' = [transaction EXCEPT !.status = "committed"]
         /\ transaction' = NoTransaction
         /\ tmCall' = ManagerCall("commit", "returned", <<>>)
         /\ UNCHANGED <<checkpoints, nextId, checkpointCalls>>

\* GitHubClient.getFileContent: the file and its sha, or a rejection when
\* the path is absent or the request fails
getFileContent(r, path, fault) ==
    LET ok == r[path].present /\ ~fault
    IN [call |-> "getFileContent", path |-> path,
        content |-> IF ok THEN r[path].content ELSE undefined,
        sha |-> IF ok THEN BlobSha(r[path].content) ELSE EmptySha,
        ok |-> ok]

\* GitHubClient.updateFile: createOrUpdateFileContents with the sha of the
\* blob being replaced; the API rejects a sha that is not the current one
updateFile(r, path, content, sha, fault) ==
    LET ok == r[path].present /\ BlobSha(r[path].content) = sha /\ ~fault
    IN [remote |-> IF ok
                   THEN [r EXCEPT ![path] = [present |-> TRUE,
                                             content |-> content]]
                   ELSE r,
        entry |-> [call |-> "updateFile", path |-> path, content |-> content,
                   sha |-> sha, ok |-> ok]]

\* GitHubClient.createFile: createOrUpdateFileContents without a sha; the API
\* rejects it when the path already holds a file
createFile(r, path, content, fault) ==
    LET ok == ~r[path].present /\ ~fault
    IN [remote |-> IF ok
                   THEN [r EXCEPT ![path] = [present |-> TRUE,
                                             content |-> content]]
                   ELSE r,
        entry |-> [call |-> "createFile", path |-> path, content |-> content,
                   sha |-> EmptySha, ok |-> ok]]

\* whether the read and the write issued for one file fail
Faults == [read : BOOLEAN, write : BOOLEAN]

\* faulty variant: updates under the sha recorded in the checkpoint
restoreFile_checkpointSha(file, r, fault) ==
    LET currentFile == getFileContent(r, file.path, fault.read)
    IN IF currentFile.ok /\ currentFile.sha # file.sha
       THEN LET upd == updateFile(r, file.path, file.content, file.sha,
                                  fault.write)
            IN [remote |-> upd.remote, log |-> <<currentFile, upd.entry>>]
       ELSE IF ~currentFile.ok
       THEN LET cre == createFile(r, file.path, file.content, fault.write)
            IN [remote |-> cre.remote, log |-> <<currentFile, cre.entry>>]
       ELSE [remote |-> r, log |-> <<currentFile>>]

\* the body of the loop of restoreRepositoryState; a rejected read counts as
\* "file deleted", a rejected write is logged and swallowed
restoreFile(file, r, fault) ==
    LET currentFile == getFileContent(r, file.path, fault.read)
    IN IF currentFile.ok /\ currentFile.sha # file.sha
       THEN LET upd == updateFile(r, file.path, file.content, currentFile.sha,
                                  fault.write)
            IN [remote |-> upd.remote, log |-> <<currentFile, upd.entry>>]
       ELSE IF ~currentFile.ok
       THEN LET cre == createFile(r, file.path, file.content, fault.write)
            IN [remote |-> cre.remote, log |-> <<currentFile, cre.entry>>]
       ELSE [remote |-> r, log |-> <<currentFile>>]

\* faulty variant: the first rejected write ends the loop
RECURSIVE restoreFrom_stopsAtFailure(_, _, _, _, _)
restoreFrom_stopsAtFailure(repoState, i, r, log, faults) ==
    IF i > Len(repoState)
    THEN [remote |-> r, log |-> log]
    ELSE LET step == restoreFile(repoState[i], r, faults[i])
         IN IF ~step.log[Len(step.log)].ok
               /\ step.log[Len(step.log)].call # "getFileContent"
            THEN [remote |-> step.remote, log |-> log \o step.log]
            ELSE restoreFrom_stopsAtFailure(repoState, i + 1, step.remote,
                                            log \o step.log, faults)

RECURSIVE restoreFrom(_, _, _, _, _)
restoreFrom(repoState, i, r, log, faults) ==
    IF i > Len(repoState)
    THEN [remote |-> r, log |-> log]
    ELSE LET step == restoreFile(repoState[i], r, faults[i])
         IN restoreFrom(repoState, i + 1, step.remote, log \o step.log, faults)

restoreRepositoryState(repoState, faults) ==
    restoreFrom(repoState, 1, remote, <<>>, faults)

\* faulty variant: restores the latest checkpoint
initialCheckpoint_latest ==
    transaction.checkpoints[Len(transaction.checkpoints)]

initialCheckpoint == transaction.checkpoints[1]

\* faulty variant: a transaction without checkpoint is rolled back as if its
\* checkpoint were empty
rollback_withoutCheckpointTest ==
    IF ~isInTransaction
    THEN /\ tmCall' = ManagerCall("rollback", "No active transaction", <<>>)
         /\ UNCHANGED <<transaction, checkpoints, remote, nextId, closedTx,
                        checkpointCalls>>
    ELSE \E faults \in [1..Len(IF transaction.checkpoints = <<>> THEN <<>>
                               ELSE initialCheckpoint.repoState) -> Faults] :
           LET restored ==
                 restoreRepositoryState(
                    IF transaction.checkpoints = <<>> THEN <<>>
                    ELSE initialCheckpoint.repoState, faults)
           IN /\ remote' = restored.remote
              /\ closedTx' = [transaction EXCEPT !.status = "rolled-back"]
              /\ transaction' = NoTransaction
              /\ tmCall' = ManagerCall("rollback", "returned", restored.log)
              /\ UNCHANGED <<checkpoints, nextId, checkpointCalls>>

\* faulty variant: the reference is cleared at the end of the try block, so
\* that a rollback that raises leaves the transaction open
rollback_withoutFinally ==
    IF ~isInTransaction
    THEN /\ tmCall' = ManagerCall("rollback", "No active transaction", <<>>)
         /\ UNCHANGED <<transaction, checkpoints, remote, nextId, closedTx,
                        checkpointCalls>>
    ELSE IF transaction.checkpoints = <<>>
    THEN /\ tmCall' = ManagerCall("rollback",
                                  "No checkpoint available for rollback", <<>>)
         /\ UNCHANGED <<transaction, checkpoints, remote, nextId, closedTx,
                        checkpointCalls>>
    ELSE \E faults \in [1..Len(initialCheckpoint.repoState) -> Faults] :
           LET restored ==
                 restoreRepositoryState(initialCheckpoint.repoState, faults)
           IN /\ remote' = restored.remote
              /\ closedTx' = [transaction EXCEPT !.status = "rolled-back"]
              /\ transaction' = NoTransaction
              /\ tmCall' = ManagerCall("rollback", "returned", restored.log)
              /\ UNCHANGED <<checkpoints, nextId, checkpointCalls>>

\* faulty variant: after the files of the checkpoint are restored, the files
\* the recorded create operations added are deleted
rollback_undoesCreates ==
    IF ~isInTransaction
    THEN /\ tmCall' = ManagerCall("rollback", "No active transaction", <<>>)
         /\ UNCHANGED <<transaction, checkpoints, remote, nextId, closedTx,
                        checkpointCalls>>
    ELSE IF transaction.checkpoints = <<>>
    THEN /\ closedTx' = transaction
         /\ transaction' = NoTransaction
         /\ tmCall' = ManagerCall("rollback",
                                  "No checkpoint available for rollback", <<>>)
         /\ UNCHANGED <<checkpoints, remote, nextId, checkpointCalls>>
    ELSE \E faults \in [1..Len(initialCheckpoint.repoState) -> Faults] :
           LET restored ==
                 restoreRepositoryState(initialCheckpoint.repoState, faults)
               created ==
                 {transaction.operations[i].path :
                    i \in {j \in 1..Len(transaction.operations) :
                             transaction.operations[j].type = "create"}}
           IN /\ remote' = [q \in DOMAIN remote |->
                              IF q \in created THEN Absent
                              ELSE restored.remote[q]]
              /\ closedTx' = [transaction EXCEPT !.status = "rolled-back"]
              /\ transaction' = NoTransaction
              /\ tmCall' = ManagerCall("rollback", "returned", restored.log)
              /\ UNCHANGED <<checkpoints, nextId, checkpointCalls>>

rollback ==
    IF ~isInTransaction
    THEN /\ tmCall' = ManagerCall("rollback", "No active transaction", <<>>)
         /\ UNCHANGED <<transaction, checkpoints, remote, nextId, closedTx,
                        checkpointCalls>>
    ELSE IF transaction.checkpoints = <<>>
    THEN \* thrown inside the try: the status is left as it is, the finally
         \* block clears the reference
         /\ closedTx' = transaction
         /\ transaction' = NoTransaction
         /\ tmCall' = ManagerCall("rollback",
                                  "No checkpoint available for rollback", <<>>)
         /\ UNCHANGED <<checkpoints, remote, nextId, checkpointCalls>>
    ELSE \E faults \in [1..Len(initialCheckpoint.repoState) -> Faults] :
           LET restored ==
                 restoreRepositoryState(initialCheckpoint.repoState, faults)
           IN /\ remote' = restored.remote
              /\ closedTx' = [transaction EXCEPT !.status = "rolled-back"]
              /\ transaction' = NoTransaction
              /\ tmCall' = ManagerCall("rollback", "returned", restored.log)
              /\ UNCHANGED <<checkpoints, nextId, checkpointCalls>>

TMNext ==
    \/ \E p \in Paths, f \in RemoteFiles :
         remoteChanges(p, f) /\ UNCHANGED <<cbVars, pfhVars, ehVars, seVars, fhVars>>
    \/ /\ nextId <= MaxTransactions
       /\ beginTransaction
       /\ UNCHANGED <<remote, cbVars, pfhVars, ehVars, seVars, fhVars>>
    \/ \E repoFiles \in RepoSnapshots, wikiFiles \in WikiSnapshots :
         /\ isInTransaction => checkpointCalls < MaxCheckpoints
         /\ createCheckpoint(repoFiles, wikiFiles)
         /\ UNCHANGED <<remote, cbVars, pfhVars, ehVars, seVars, fhVars>>
    \/ \E operation \in SyncOperations :
         /\ isInTransaction => Len(transaction.operations) < MaxOperations
         /\ recordOperation(operation)
         /\ UNCHANGED <<remote, cbVars, pfhVars, ehVars, seVars, fhVars>>
    \/ commit /\ UNCHANGED <<remote, cbVars, pfhVars, ehVars, seVars, fhVars>>
    \/ rollback /\ UNCHANGED <<cbVars, pfhVars, ehVars, seVars, fhVars>>

TMSpec == TMInit /\ [][TMNext]_vars

\* createCheckpoint called with any listings: the same files and pages in
\* either order, a file under one path and sha with either content, a page
\* with either content
ListedFileStates ==
    FileStates \cup {[path |-> "f2", sha |-> EmptySha, content |-> c1]}
ListedPageStates ==
    { [name |-> "Home", content |-> c1], [name |-> "Home", content |-> c2],
      [name |-> "Side", content |-> c1] }
RepoListings ==
    { f \in UNION { [1..n -> ListedFileStates] : n \in 0..MaxFiles } :
        \A i, j \in 1..Len(f) : i # j => f[i].path # f[j].path }
WikiListings ==
    { w \in UNION { [1..n -> ListedPageStates] : n \in 1..MaxFiles } :
        /\ \A i, j \in 1..Len(w) : i # j => w[i].name # w[j].name
        /\ Len(w) > 1 => \A i \in 1..Len(w) : w[i].content = c1 }

CPInit ==
    /\ TMIdle
    /\ CBIdle
    /\ PFHIdle
    /\ EHIdle
    /\ SEIdle
    /\ FHIdle

CPNext ==
    \/ /\ ~isInTransaction
       /\ beginTransaction
       /\ UNCHANGED <<remote, cbVars, pfhVars, ehVars, seVars, fhVars>>
    \/ \E repoFiles \in RepoListings, wikiFiles \in WikiListings :
         /\ isInTransaction
         /\ checkpointCalls < MaxCheckpoints
         /\ createCheckpoint(repoFiles, wikiFiles)
         /\ UNCHANGED <<remote, cbVars, pfhVars, ehVars, seVars, fhVars>>

\* one transaction of the manager and the checkpoints created in it
CPSpec == CPInit /\ [][CPNext]_vars

\* the calls that test `this.transaction` first
GuardedCalls == {"createCheckpoint", "recordOperation", "commit", "rollback"}

\* C4: beginTransaction() called while a transaction is open raises an error
\* and leaves the open transaction unchanged.
C4_BeginRaisesWhenOpen ==
    [][(isInTransaction /\ tmCall'.name = "beginTransaction")
         => (tmCall'.outcome # "returned" /\ transaction' = transaction)]_vars

\* C5: createCheckpoint, recordOperation, commit and rollback called while no
\* transaction is open raise 'No active transaction', change no manager
\* state and make no remote call.
C5_NoActiveTransactionRaises ==
    [][(~isInTransaction /\ tmCall'.name \in GuardedCalls)
         => (/\ tmCall'.outcome = "No active transaction"
             /\ tmCall'.remoteLog = <<>>
             /\ UNCHANGED <<transaction, checkpoints, remote>>)]_vars

C5_Witness ==
    /\ tmCall.name = "rollback"
    /\ tmCall.outcome = "No active transaction"
    /\ closedTx.status = "committed"

\* C6: after commit() or rollback() on an open transaction (whether rollback
\* returns or raises) the manager holds no transaction and the detached
\* transaction's status is committed or rolled-back, never pending.
C6_DetachedTransactionIsTerminal ==
    (tmCall.name \in {"commit", "rollback"} /\ tmCall.wasOpen)
      => (~isInTransaction
          /\ closedTx.status \in {"committed", "rolled-back"})

\* C7: rollback() on an open transaction without checkpoint raises
\* 'No checkpoint available for rollback' and performs no remote read or
\* write.
C7_RollbackWithoutCheckpointRaises ==
    (tmCall.name = "rollback" /\ tmCall.wasOpen
       /\ closedTx.checkpoints = <<>>)
      => (/\ tmCall.outcome = "No checkpoint available for rollback"
          /\ tmCall.remoteLog = <<>>
          /\ remote = tmCall.remoteBefore)

C7_Witness ==
    /\ tmCall.name = "rollback"
    /\ tmCall.wasOpen
    /\ closedTx.checkpoints = <<>>
    /\ closedTx.operations # <<>>
    /\ tmCall.outcome = "No checkpoint available for rollback"

\* a remote write of the latest call
LoggedWrite(call, path, content, sha) ==
    \E k \in 1..Len(tmCall.remoteLog) :
       /\ tmCall.remoteLog[k].call = call
       /\ tmCall.remoteLog[k].path = path
       /\ tmCall.remoteLog[k].content = content
       /\ tmCall.remoteLog[k].sha = sha

Holds(path, content) == remote[path] = [present |-> TRUE, content |-> content]

\* C8 as stated: rollback() restores every file f (revision r1, content c1) of
\* the first checkpoint: a remote f with revision r2 # r1 gets
\* updateFile(f, c1, r2), an absent f gets createFile(f, c1), and in both
\* cases f contains c1 after rollback.
C8_RollbackRestoresFirstCheckpoint ==
    (tmCall.name = "rollback" /\ tmCall.outcome = "returned")
      => \A i \in 1..Len(closedTx.checkpoints[1].repoState) :
           LET f == closedTx.checkpoints[1].repoState[i]
               before == tmCall.remoteBefore[f.path]
           IN /\ (before.present /\ BlobSha(before.content) # f.sha)
                   => (/\ LoggedWrite("updateFile", f.path, f.content,
                                      BlobSha(before.content))
                       /\ Holds(f.path, f.content))
              /\ ~before.present
                   => (/\ LoggedWrite("createFile", f.path, f.content,
                                      EmptySha)
                       /\ Holds(f.path, f.content))

\* C8 amended: rollback() reads every file f (revision r1, content c1) of
\* the first checkpoint and no other path.  When getFileContent returns f
\* with a revision r2 # r1 the next call is updateFile(f, c1, r2); when
\* getFileContent is rejected (f is absent, or the read fails) the next call
\* is createFile(f, c1); when it returns revision r1 no write is made.  f
\* contains c1 after rollback if that write succeeded, and is left as it was
\* if the write failed.
C8_RollbackRestoresWhereWritesSucceed ==
    (tmCall.name = "rollback" /\ tmCall.outcome = "returned")
      => LET first == closedTx.checkpoints[1].repoState
             log == tmCall.remoteLog
             reads == {k \in 1..Len(log) : log[k].call = "getFileContent"}
         IN /\ Cardinality(reads) = Len(first)
            /\ \A k \in 1..Len(log) :
                 \E i \in 1..Len(first) : first[i].path = log[k].path
            /\ \A i \in 1..Len(first) :
                 LET f == first[i]
                     before == tmCall.remoteBefore[f.path]
                 IN \E k \in reads :
                      /\ log[k].path = f.path
                      /\ log[k].ok
                           => (before.present
                               /\ log[k].sha = BlobSha(before.content))
                      /\ ~before.present => ~log[k].ok
                      /\ (log[k].ok /\ log[k].sha # f.sha)
                           => (/\ k < Len(log)
                               /\ log[k + 1].call = "updateFile"
                               /\ log[k + 1].path = f.path
                               /\ log[k + 1].content = f.content
                               /\ log[k + 1].sha = log[k].sha)
                      /\ ~log[k].ok
                           => (/\ k < Len(log)
                               /\ log[k + 1].call = "createFile"
                               /\ log[k + 1].path = f.path
                               /\ log[k + 1].content = f.content)
                      /\ (log[k].ok /\ log[k].sha = f.sha)
                           => (/\ (k < Len(log)
                                     => log[k + 1].call = "getFileContent")
                               /\ remote[f.path] = before)
                      /\ (k < Len(log) /\ log[k + 1].call # "getFileContent")
                           => IF log[k + 1].ok
                              THEN Holds(f.path, f.content)
                              ELSE remote[f.path] = before

C8_Witness ==
    /\ tmCall.name = "rollback"
    /\ tmCall.outcome = "returned"
    /\ Len(closedTx.checkpoints) = 2
    /\ closedTx.checkpoints[1].repoState # closedTx.checkpoints[2].repoState
    /\ \E k \in 1..Len(tmCall.remoteLog) :
         tmCall.remoteLog[k].call = "updateFile" /\ tmCall.remoteLog[k].ok
    /\ \E k \in 1..Len(tmCall.remoteLog) :
         tmCall.remoteLog[k].call = "createFile" /\ tmCall.remoteLog[k].ok
    /\ remote # tmCall.remoteBefore

-----------------------------------------------------------------------------
(***************************************************************************)
(* ErrorHandler: classify and retryWithBackoff                             *)
(***************************************************************************)
\* A message is a text of at most MaxWords words; the patterns of the
\* classifier are matched on whole words.
MaxWords == 2
\* attempts allowed to one retryWithBackoff call
MaxRetries == 3

Words ==
    {"rate", "limit", "Forbidden", "unauthorized", "not", "found", "timeout",
     "conflict", "failed"}

Messages == UNION { [1..n -> Words] : n \in 0..MaxWords }

\* the /i flag of the patterns: letters are compared in lower case
Lower(w) == IF w = "Forbidden" THEN "forbidden" ELSE w

ErrorTypes ==
    {"RATE_LIMIT", "AUTH_ERROR", "FILE_NOT_FOUND", "NETWORK_ERROR", "CONFLICT",
     "VALIDATION_ERROR", "UNKNOWN"}

\* values of a `status` property: numbers, and texts as some clients send them
NaN == -1
Statuses ==
    {NoStatus}
      \cup {[type |-> "number", value |-> n, text |-> ""] :
              n \in {403, 401, 404, 422, 500}}
      \cup {[type |-> "string", value |-> 0, text |-> t] : t \in {"403"}}

\* Number(error.status)
Number(status) ==
    CASE status.type = "number" -> status.value
      [] status.type = "string" /\ status.text = "403" -> 403
      [] status.type = "string" /\ status.text = "401" -> 401
      [] status.type = "string" /\ status.text = "404" -> 404
      [] OTHER -> NaN

Codes == {NoCode, "ENOENT", "ECONNREFUSED", "EACCES"}

\* values that can be thrown: Error instances, strings, and plain objects
\* with or without a message
ErrorValues ==
    {[kind |-> "string", status |-> NoStatus, code |-> NoCode,
      hasMessage |-> FALSE, message |-> m] : m \in Messages}
      \cup {[kind |-> "Error", status |-> s, code |-> c, hasMessage |-> TRUE,
             message |-> m] : s \in Statuses, c \in Codes, m \in Messages}
      \cup {[kind |-> "object", status |-> s, code |-> c, hasMessage |-> FALSE,
             message |-> <<>>] : s \in Statuses, c \in Codes}
      \cup {NoError}

\* String(error) of a plain object and of undefined
ObjectString == <<"[object", "Object]">>
UndefinedString == <<"undefined">>

getErrorMessage(error) ==
    CASE error.kind = "Error" -> error.message
      [] error.kind = "string" -> error.message
      [] error.kind = "object" /\ error.hasMessage -> error.message
      [] error.kind = "object" /\ ~error.hasMessage -> ObjectString
      [] OTHER -> UndefinedString

\* RegExp.test: one of the alternatives occurs in the message
Occurs(alternative, message) ==
    \E i \in 1..(Len(message) - Len(alternative) + 1) :
       \A j \in 1..Len(alternative) :
          Lower(message[i + j - 1]) = alternative[j]

test(pattern, message) == \E alternative \in pattern : Occurs(alternative, message)

\* faulty variant: the authorisation pattern is tried before the 403 pattern
\* and the not-found pattern before the rate-limit pattern
ERROR_PATTERNS_reordered ==
    << [pattern |-> {<<"enoent">>, <<"not", "found">>},
        type |-> "FILE_NOT_FOUND"],
       [pattern |-> {<<"401">>, <<"unauthorized">>}, type |-> "AUTH_ERROR"],
       [pattern |-> {<<"rate", "limit">>}, type |-> "RATE_LIMIT"],
       [pattern |-> {<<"403">>, <<"forbidden">>}, type |-> "RATE_LIMIT"],
       [pattern |-> {<<"network">>, <<"timeout">>, <<"econnrefused">>},
        type |-> "NETWORK_ERROR"],
       [pattern |-> {<<"conflict">>}, type |-> "CONFLICT"] >>

\* the Map of patterns, in insertion order
ERROR_PATTERNS ==
    << [pattern |-> {<<"rate", "limit">>}, type |-> "RATE_LIMIT"],
       [pattern |-> {<<"403">>, <<"forbidden">>}, type |-> "RATE_LIMIT"],
       [pattern |-> {<<"401">>, <<"unauthorized">>}, type |-> "AUTH_ERROR"],
       [pattern |-> {<<"enoent">>, <<"not", "found">>},
        type |-> "FILE_NOT_FOUND"],
       [pattern |-> {<<"network">>, <<"timeout">>, <<"econnrefused">>},
        type |-> "NETWORK_ERROR"],
       [pattern |-> {<<"conflict">>}, type |-> "CONFLICT"] >>

\* faulty variant: the error code is looked at before the HTTP status
detectErrorType_codeFirst(error, message) ==
    LET isObject == error.kind \in {"Error", "object"}
        status == IF isObject /\ error.status # NoStatus
                  THEN Number(error.status) ELSE NaN
        code == IF isObject THEN error.code ELSE NoCode
        matching == {i \in 1..Len(ERROR_PATTERNS) :
                       test(ERROR_PATTERNS[i].pattern, message)}
    IN CASE code = "ENOENT" -> "FILE_NOT_FOUND"
         [] code = "ECONNREFUSED" -> "NETWORK_ERROR"
         [] status = 403 -> "RATE_LIMIT"
         [] status = 401 -> "AUTH_ERROR"
         [] status = 404 -> "FILE_NOT_FOUND"
         [] OTHER ->
              IF matching # {}
              THEN ERROR_PATTERNS[CHOOSE i \in matching :
                                    \A k \in matching : i <= k].type
              ELSE "UNKNOWN"

\* faulty variant: the status 422 of the API is a validation error
detectErrorType_validation(error, message) ==
    LET isObject == error.kind \in {"Error", "object"}
        status == IF isObject /\ error.status # NoStatus
                  THEN Number(error.status) ELSE NaN
        code == IF isObject THEN error.code ELSE NoCode
        matching == {i \in 1..Len(ERROR_PATTERNS) :
                       test(ERROR_PATTERNS[i].pattern, message)}
    IN CASE status = 403 -> "RATE_LIMIT"
         [] status = 401 -> "AUTH_ERROR"
         [] status = 404 -> "FILE_NOT_FOUND"
         [] status = 422 -> "VALIDATION_ERROR"
         [] code = "ENOENT" -> "FILE_NOT_FOUND"
         [] code = "ECONNREFUSED" -> "NETWORK_ERROR"
         [] OTHER ->
              IF matching # {}
              THEN ERROR_PATTERNS[CHOOSE i \in matching :
                                    \A k \in matching : i <= k].type
              ELSE "UNKNOWN"

detectErrorType(error, message) ==
    LET isObject == error.kind \in {"Error", "object"}
        status == IF isObject /\ error.status # NoStatus
                  THEN Number(error.status) ELSE NaN
        code == IF isObject THEN error.code ELSE NoCode
        matching == {i \in 1..Len(ERROR_PATTERNS) :
                       test(ERROR_PATTERNS[i].pattern, message)}
    IN CASE status = 403 -> "RATE_LIMIT"
         [] status = 401 -> "AUTH_ERROR"
         [] status = 404 -> "FILE_NOT_FOUND"
         [] code = "ENOENT" -> "FILE_NOT_FOUND"
         [] code = "ECONNREFUSED" -> "NETWORK_ERROR"
         [] OTHER ->
              IF matching # {}
              THEN ERROR_PATTERNS[CHOOSE i \in matching :
                                    \A k \in matching : i <= k].type
              ELSE "UNKNOWN"

\* faulty variant: a missing file is retried
getRecoveryStrategy_retryNotFound(errorType) ==
    CASE errorType = "RATE_LIMIT" -> [retryable |-> TRUE, fatal |-> FALSE]
      [] errorType = "AUTH_ERROR" -> [retryable |-> FALSE, fatal |-> TRUE]
      [] errorType = "FILE_NOT_FOUND" -> [retryable |-> TRUE, fatal |-> FALSE]
      [] errorType = "NETWORK_ERROR" -> [retryable |-> TRUE, fatal |-> FALSE]
      [] errorType = "CONFLICT" -> [retryable |-> FALSE, fatal |-> FALSE]
      [] errorType = "VALIDATION_ERROR" -> [retryable |-> FALSE, fatal |-> TRUE]
      [] errorType = "UNKNOWN" -> [retryable |-> TRUE, fatal |-> FALSE]

getRecoveryStrategy(errorType) ==
    CASE errorType = "RATE_LIMIT" -> [retryable |-> TRUE, fatal |-> FALSE]
      [] errorType = "AUTH_ERROR" -> [retryable |-> FALSE, fatal |-> TRUE]
      [] errorType = "FILE_NOT_FOUND" -> [retryable |-> FALSE, fatal |-> FALSE]
      [] errorType = "NETWORK_ERROR" -> [retryable |-> TRUE, fatal |-> FALSE]
      [] errorType = "CONFLICT" -> [retryable |-> FALSE, fatal |-> FALSE]
      [] errorType = "VALIDATION_ERROR" -> [retryable |-> FALSE, fatal |-> TRUE]
      [] errorType = "UNKNOWN" -> [retryable |-> TRUE, fatal |-> FALSE]

classify(error) ==
    LET message == getErrorMessage(error)
        type == detectErrorType(error, message)
    IN [type |-> type, message |-> message, details |-> error,
        retryable |-> getRecoveryStrategy(type).retryable,
        fatal |-> getRecoveryStrategy(type).fatal]

\* a caller classifies an error
classifyCall(error) ==
    /\ ehError' = error
    /\ ehContext' = classify(error)
    /\ UNCHANGED <<maxRetries, baseDelay, attempt, lastError, rwPc,
                   rwInvocations, rwErrors, rwDelays, rwRaised>>

\* the cap of the backoff delay, in milliseconds
MaxBackoff == 30000

\* base delays handed to retryWithBackoff (1000 is the default)
BaseDelays == {1000, 16000}

\* errors the retried operation rejects with: a timeout, a missing file, a
\* rejected token and an unclassified failure
OperationErrors ==
    { [kind |-> "Error", status |-> NoStatus, code |-> NoCode,
       hasMessage |-> TRUE, message |-> <<"timeout">>],
      [kind |-> "Error", status |-> [type |-> "number", value |-> 404,
                                     text |-> ""],
       code |-> NoCode, hasMessage |-> TRUE, message |-> <<"not", "found">>],
      [kind |-> "Error", status |-> [type |-> "number", value |-> 401,
                                     text |-> ""],
       code |-> NoCode, hasMessage |-> TRUE, message |-> <<"unauthorized">>],
      [kind |-> "string", status |-> NoStatus, code |-> NoCode,
       hasMessage |-> FALSE, message |-> <<"failed">>] }

\* faulty variant: the exponent is the attempt number
delay_attemptExponent(base, n) ==
    IF base * 2 ^ n < MaxBackoff THEN base * 2 ^ n ELSE MaxBackoff

\* const delay = Math.min(baseDelay * 2 ** (attempt - 1), 30000)
delay(base, n) ==
    IF base * 2 ^ (n - 1) < MaxBackoff THEN base * 2 ^ (n - 1) ELSE MaxBackoff

\* faulty variant: every error is retried until the attempts run out
rethrows_lastAttemptOnly(errorContext) == attempt = maxRetries

\* if (!errorContext.retryable || attempt === maxRetries) throw error
rethrows(errorContext) == ~errorContext.retryable \/ attempt = maxRetries

\* retryWithBackoff(operation, maxRetries, baseDelay) is called
retryWithBackoff(m, b) ==
    /\ rwPc \in {"idle", "returned", "raised"}
    /\ maxRetries' = m
    /\ baseDelay' = b
    /\ attempt' = 1
    /\ lastError' = NoError
    /\ rwPc' = "attempt"
    /\ rwInvocations' = 0
    /\ rwErrors' = <<>>
    /\ rwDelays' = <<>>
    /\ rwRaised' = NoError
    /\ UNCHANGED <<ehError, ehContext>>

\* the loop is entered and `await operation()` resolves: the result is
\* returned
operationResolves ==
    /\ rwPc = "attempt"
    /\ attempt <= maxRetries
    /\ rwInvocations' = rwInvocations + 1
    /\ rwPc' = "returned"
    /\ UNCHANGED <<ehError, ehContext, maxRetries, baseDelay, attempt,
                   lastError, rwErrors, rwDelays, rwRaised>>

\* the loop is entered and `await operation()` rejects: the catch block
\* either rethrows or starts the timer
operationRejects(error) ==
    /\ rwPc = "attempt"
    /\ attempt <= maxRetries
    /\ rwInvocations' = rwInvocations + 1
    /\ rwErrors' = Append(rwErrors, error)
    /\ lastError' = error
    /\ ehError' = error
    /\ ehContext' = classify(error)
    /\ IF rethrows(ehContext')
       THEN /\ rwRaised' = error
            /\ rwPc' = "raised"
            /\ UNCHANGED rwDelays
       ELSE /\ rwDelays' = Append(rwDelays, delay(baseDelay, attempt))
            /\ rwPc' = "waiting"
            /\ UNCHANGED rwRaised
    /\ UNCHANGED <<maxRetries, baseDelay, attempt>>

\* the timer of the backoff fires: attempt++
timerFires ==
    /\ rwPc = "waiting"
    /\ attempt' = attempt + 1
    /\ rwPc' = "attempt"
    /\ UNCHANGED <<ehError, ehContext, maxRetries, baseDelay, lastError,
                   rwInvocations, rwErrors, rwDelays, rwRaised>>

\* the loop condition fails: `throw lastError` after the loop
loopEnds ==
    /\ rwPc = "attempt"
    /\ attempt > maxRetries
    /\ rwRaised' = lastError
    /\ rwPc' = "raised"
    /\ UNCHANGED <<ehError, ehContext, maxRetries, baseDelay, attempt,
                   lastError, rwInvocations, rwErrors, rwDelays>>

EHInit ==
    /\ EHIdle
    /\ CBIdle
    /\ PFHIdle
    /\ TMIdle
    /\ SEIdle
    /\ FHIdle

\* a behaviour is one call of classify or one call of retryWithBackoff
EHNext ==
    \/ \E error \in ErrorValues :
         /\ ehContext = NoContext
         /\ rwPc = "idle"
         /\ classifyCall(error)
         /\ UNCHANGED <<cbVars, pfhVars, tmVars, seVars, fhVars>>
    \/ \E m \in 0..MaxRetries, b \in BaseDelays :
         /\ ehContext = NoContext
         /\ rwPc = "idle"
         /\ retryWithBackoff(m, b)
         /\ UNCHANGED <<cbVars, pfhVars, tmVars, seVars, fhVars>>
    \/ operationResolves /\ UNCHANGED <<cbVars, pfhVars, tmVars, seVars, fhVars>>
    \/ \E error \in OperationErrors :
         operationRejects(error) /\ UNCHANGED <<cbVars, pfhVars, tmVars, seVars, fhVars>>
    \/ timerFires /\ UNCHANGED <<cbVars, pfhVars, tmVars, seVars, fhVars>>
    \/ loopEnds /\ UNCHANGED <<cbVars, pfhVars, tmVars, seVars, fhVars>>

EHSpec == EHInit /\ [][EHNext]_vars

\* the (retryable, fatal) pair the specification fixes for each category
CategoryTable ==
    [t \in ErrorTypes |->
       CASE t = "RATE_LIMIT" -> <<TRUE, FALSE>>
         [] t = "AUTH_ERROR" -> <<FALSE, TRUE>>
         [] t = "FILE_NOT_FOUND" -> <<FALSE, FALSE>>
         [] t = "NETWORK_ERROR" -> <<TRUE, FALSE>>
         [] t = "CONFLICT" -> <<FALSE, FALSE>>
         [] t = "VALIDATION_ERROR" -> <<FALSE, TRUE>>
         [] t = "UNKNOWN" -> <<TRUE, FALSE>>]

\* C11: classify returns, for every input, one of the seven categories, and
\* the (retryable, fatal) pair of the returned context is the fixed pair of
\* that category: RateLimit (T,F), AuthError (F,T), FileNotFound (F,F),
\* NetworkError (T,F), Conflict (F,F), ValidationError (F,T), Unknown (T,F).
C11_ClassifyTotalWithFixedPairs ==
    /\ ehContext # NoContext
         => (/\ ehContext.type \in ErrorTypes
             /\ ehContext.details = ehError
             /\ <<ehContext.retryable, ehContext.fatal>>
                  = CategoryTable[ehContext.type])
    /\ \A t \in ErrorTypes :
         <<getRecoveryStrategy(t).retryable, getRecoveryStrategy(t).fatal>>
           = CategoryTable[t]

C11_Witness ==
    /\ rwPc = "idle"
    /\ ehError.kind = "object"
    /\ ~ehError.hasMessage
    /\ ehError.code = "ENOENT"
    /\ ehContext.type = "FILE_NOT_FOUND"
    /\ ~ehContext.retryable
    /\ ~ehContext.fatal

\* the detection order of the specification: the message patterns in order,
\* each with its category
MessageOrder ==
    << [words |-> {<<"rate", "limit">>}, category |-> "RATE_LIMIT"],
       [words |-> {<<"403">>, <<"forbidden">>}, category |-> "RATE_LIMIT"],
       [words |-> {<<"401">>, <<"unauthorized">>}, category |-> "AUTH_ERROR"],
       [words |-> {<<"enoent">>, <<"not", "found">>},
        category |-> "FILE_NOT_FOUND"],
       [words |-> {<<"network">>, <<"timeout">>, <<"econnrefused">>},
        category |-> "NETWORK_ERROR"],
       [words |-> {<<"conflict">>}, category |-> "CONFLICT"] >>

StatusOf(error) ==
    IF error.kind \in {"Error", "object"} /\ error.status # NoStatus
    THEN Number(error.status) ELSE NaN

CodeOf(error) ==
    IF error.kind \in {"Error", "object"} THEN error.code ELSE NoCode

\* C12: a status of 403/401/404 decides the category whatever the code and
\* the message are; otherwise a code of ENOENT/ECONNREFUSED decides whatever
\* the message is; otherwise the first matching message pattern in the order
\* rate limit, 403|forbidden, 401|unauthorized, enoent|not found,
\* network|timeout|econnrefused, conflict decides; otherwise Unknown.
C12_DetectionOrder ==
    ehContext # NoContext
      => LET status == StatusOf(ehError)
             code == CodeOf(ehError)
             byStatus == status \in {403, 401, 404}
             byCode == ~byStatus /\ code \in {"ENOENT", "ECONNREFUSED"}
             message == ehContext.message
         IN /\ status = 403 => ehContext.type = "RATE_LIMIT"
            /\ status = 401 => ehContext.type = "AUTH_ERROR"
            /\ status = 404 => ehContext.type = "FILE_NOT_FOUND"
            /\ (~byStatus /\ code = "ENOENT")
                 => ehContext.type = "FILE_NOT_FOUND"
            /\ (~byStatus /\ code = "ECONNREFUSED")
                 => ehContext.type = "NETWORK_ERROR"
            /\ \A i \in 1..Len(MessageOrder) :
                 (/\ ~byStatus
                  /\ ~byCode
                  /\ test(MessageOrder[i].words, message)
                  /\ \A k \in 1..(i - 1) :
                       ~test(MessageOrder[k].words, message))
                   => ehContext.type = MessageOrder[i].category
            /\ (/\ ~byStatus
                /\ ~byCode
                /\ \A i \in 1..Len(MessageOrder) :
                     ~test(MessageOrder[i].words, message))
                 => ehContext.type = "UNKNOWN"

C12_Witness ==
    /\ rwPc = "idle"
    /\ ehError.status = [type |-> "number", value |-> 404, text |-> ""]
    /\ ehError.code = "ECONNREFUSED"
    /\ ehError.message = <<"rate", "limit">>
    /\ ehContext.type = "FILE_NOT_FOUND"

\* C13: retryWithBackoff with maxRetries >= 1 invokes the operation at most
\* maxRetries times and returns at the first invocation that succeeds; an
\* invocation that fails with an error classified non-retryable is the last
\* one and its error is raised; when maxRetries invocations have failed the
\* error of the last one is raised.
C13_RetryBoundedAndRaisesLast ==
    maxRetries >= 1
      => /\ rwInvocations <= maxRetries
         /\ rwPc = "returned" => rwInvocations = Len(rwErrors) + 1
         /\ rwPc # "returned" => rwInvocations = Len(rwErrors)
         /\ \A k \in 1..Len(rwErrors) :
              ~classify(rwErrors[k]).retryable
                => (/\ k = Len(rwErrors)
                    /\ rwPc = "raised"
                    /\ rwRaised = rwErrors[k])
         /\ Len(rwErrors) = maxRetries
              => (rwPc = "raised" /\ rwRaised = rwErrors[maxRetries])
         /\ rwPc = "raised" => rwRaised = rwErrors[Len(rwErrors)]

C13_Witness ==
    /\ rwPc = "raised"
    /\ maxRetries = 3
    /\ rwInvocations = 3
    /\ \A k \in 1..3 : classify(rwErrors[k]).retryable
    /\ rwErrors[3] # rwErrors[2]
    /\ rwRaised = rwErrors[3]

\* C14: the k-th wait of a retryWithBackoff call follows failed attempt k and
\* lasts min(baseDelay * 2^(k-1), 30000) ms; a failure that is raised (the
\* last attempt, or a non-retryable error) is followed by no wait.
C14_BackoffDelays ==
    /\ \A k \in 1..Len(rwDelays) :
         rwDelays[k] = IF baseDelay * 2 ^ (k - 1) < 30000
                       THEN baseDelay * 2 ^ (k - 1) ELSE 30000
    /\ rwPc = "raised" /\ rwErrors # <<>>
         => Len(rwDelays) = Len(rwErrors) - 1
    /\ rwPc # "raised" => Len(rwDelays) = Len(rwErrors)
    /\ rwPc = "waiting" => Len(rwDelays) = attempt
    /\ rwPc \in {"attempt", "returned", "raised"} /\ attempt >= 1
         => Len(rwDelays) = attempt - 1

C14_Witness ==
    /\ rwPc = "raised"
    /\ baseDelay = 16000
    /\ rwDelays = <<16000, 30000>>
    /\ Len(rwErrors) = 3

-----------------------------------------------------------------------------
(***************************************************************************)
(* FileHandler and GitHubClient: paths and wiki page names                 *)
(***************************************************************************)
\* A path or a name is a text: a sequence of the pieces the conversions tell
\* apart (the separator, the hyphen, the extension, and words without any of
\* them).
Sep == "/"
Hyphen == "-"
Md == ".md"

\* String.prototype.split(sep)
RECURSIVE split(_, _)
split(text, sep) ==
    IF \A i \in 1..Len(text) : text[i] # sep
    THEN <<text>>
    ELSE LET i == CHOOSE i \in 1..Len(text) :
                    text[i] = sep /\ \A j \in 1..(i - 1) : text[j] # sep
         IN <<SubSeq(text, 1, i - 1)>>
              \o split(SubSeq(text, i + 1, Len(text)), sep)

\* Array.prototype.join(sep)
RECURSIVE join(_, _)
join(parts, sep) ==
    IF parts = <<>> THEN <<>>
    ELSE IF Len(parts) = 1 THEN parts[1]
    ELSE parts[1] \o <<sep>> \o join(Tail(parts), sep)

\* replace(/c+/g, 'c'): runs of one piece become a single piece
RECURSIVE collapse(_, _)
collapse(text, c) ==
    IF Len(text) < 2 THEN text
    ELSE IF text[1] = c /\ text[2] = c THEN collapse(Tail(text), c)
    ELSE <<text[1]>> \o collapse(Tail(text), c)

\* replace(/^c+|c+$/g, ''): leading and trailing pieces are removed
RECURSIVE trim(_, _)
trim(text, c) ==
    IF text = <<>> THEN text
    ELSE IF text[1] = c THEN trim(Tail(text), c)
    ELSE IF text[Len(text)] = c THEN trim(SubSeq(text, 1, Len(text) - 1), c)
    ELSE text

\* path.join(...segments): empty segments are dropped, the rest is joined by
\* the separator and normalised; nothing at all is '.'
pathJoin(segments) ==
    LET joined == join(SelectSeq(segments, LAMBDA segment : segment # <<>>),
                       Sep)
    IN IF joined = <<>> THEN <<".">> ELSE collapse(joined, Sep)

\* path.relative(from, to) for a path below `from`
relative(from, to) == SubSeq(to, Len(from) + 2, Len(to))

endsWithMd(text) == text # <<>> /\ text[Len(text)] = Md

\* FileHandler.convertPathToWikiName
convertPathToWikiName(filePath) ==
    LET withoutMd == IF filePath # <<>> /\ filePath[Len(filePath)] \in {Md, ".MD"}
                     THEN SubSeq(filePath, 1, Len(filePath) - 1)
                     ELSE filePath
        hyphens == [i \in 1..Len(withoutMd) |->
                      IF withoutMd[i] \in {Sep, "\\"} THEN Hyphen
                      ELSE withoutMd[i]]
    IN trim(collapse(hyphens, Hyphen), Hyphen)

\* faulty variant: the hyphens of the name are kept
convertWikiNameToPath_unsplit(wikiName, baseDir) ==
    LET withMd == IF endsWithMd(wikiName) THEN wikiName
                  ELSE wikiName \o <<Md>>
    IN IF baseDir # <<>> THEN pathJoin(<<baseDir, withMd>>) ELSE withMd

\* FileHandler.convertWikiNameToPath
convertWikiNameToPath(wikiName, baseDir) ==
    LET parts == split(wikiName, Hyphen)
        filePath == IF Len(parts) > 1 THEN pathJoin(parts) ELSE wikiName
        withMd == IF endsWithMd(filePath) THEN filePath
                  ELSE filePath \o <<Md>>
    IN IF baseDir # <<>> THEN pathJoin(<<baseDir, withMd>>) ELSE withMd

\* GitHubClient.filePathToWikiName
filePathToWikiName(filePath) ==
    LET withoutMd == IF endsWithMd(filePath)
                     THEN SubSeq(filePath, 1, Len(filePath) - 1)
                     ELSE filePath
    IN [i \in 1..Len(withoutMd) |->
          IF withoutMd[i] = Sep THEN Hyphen ELSE withoutMd[i]]

\* the texts handed to the conversions: up to MaxPieces pieces, each a word,
\* a separator, a hyphen or the extension
MaxPieces == 5
MaxCalls == 3
Pieces == {"a", "b", Sep, Hyphen, Md}
Texts == UNION {[1..n -> Pieces] : n \in 0..MaxPieces}
BaseDirs == {<<>>, <<"docs">>}

\* a caller converts a path to a page name
convertPathToWikiNameCall(filePath) ==
    fhCalls' = Append(fhCalls,
                      [name |-> "convertPathToWikiName", input |-> filePath,
                       baseDir |-> <<>>,
                       output |-> convertPathToWikiName(filePath)])

\* a caller converts a page name to a path
convertWikiNameToPathCall(wikiName, baseDir) ==
    fhCalls' = Append(fhCalls,
                      [name |-> "convertWikiNameToPath", input |-> wikiName,
                       baseDir |-> baseDir,
                       output |-> convertWikiNameToPath(wikiName, baseDir)])

FHInit ==
    /\ FHIdle
    /\ CBIdle
    /\ PFHIdle
    /\ TMIdle
    /\ EHIdle
    /\ SEIdle

\* what the latest call returned
lastOutput == fhCalls[Len(fhCalls)].output

\* the first call converts any text; a later call converts back what the
\* call before it returned
FHNext ==
    \/ \E filePath \in (IF fhCalls = <<>> THEN Texts ELSE {lastOutput}) :
         /\ Len(fhCalls) < MaxCalls
         /\ fhCalls # <<>>
              => fhCalls[Len(fhCalls)].name = "convertWikiNameToPath"
         /\ convertPathToWikiNameCall(filePath)
         /\ UNCHANGED <<cbVars, pfhVars, tmVars, ehVars, seVars>>
    \/ \E wikiName \in (IF fhCalls = <<>> THEN Texts ELSE {lastOutput}),
          baseDir \in (IF fhCalls = <<>> THEN BaseDirs ELSE {<<>>}) :
         /\ Len(fhCalls) < MaxCalls
         /\ fhCalls # <<>>
              => fhCalls[Len(fhCalls)].name = "convertPathToWikiName"
         /\ convertWikiNameToPathCall(wikiName, baseDir)
         /\ UNCHANGED <<cbVars, pfhVars, tmVars, ehVars, seVars>>

FHSpec == FHInit /\ [][FHNext]_vars

-----------------------------------------------------------------------------
(***************************************************************************)
(* SyncEngine                                                              *)
(***************************************************************************)
\* sync() calls made on one engine, and failures injected into apply steps
MaxRuns == 2
MaxInjected == 1

\* the default of the sync-folder input
SyncFolder == <<"docs">>

\* the markdown files of the checkout and of the wiki, each list in the
\* order a directory listing yields them
DiskOrder ==
    << <<"docs", "/", "a", "/", "b", ".md">>, <<"docs", "/", "a", ".md">> >>
WikiOrder ==
    << <<"a", "-", "-", "b", ".md">>, <<"a", "-", "b", ".md">>,
       <<"a", ".md">> >>

DiskPaths == {DiskOrder[i] : i \in 1..Len(DiskOrder)}
WikiFiles == {WikiOrder[i] : i \in 1..Len(WikiOrder)}

\* the paths the GitHub API is asked for: the files of the sync folder, and
\* the same files under the paths a checkpoint records for them
RemotePaths == DiskPaths \cup {relative(SyncFolder, p) : p \in DiskPaths}

File(content) == [present |-> TRUE, content |-> content]

\* fs.access
exists(directory, path) == path \in DOMAIN directory /\ directory[path].present

\* FileHandler.writeMarkdownFile
writeMarkdownFile(directory, filePath, content) ==
    [p \in DOMAIN directory \cup {filePath} |->
       IF p = filePath THEN File(content) ELSE directory[p]]

\* FileHandler.deleteMarkdownFile: a missing file is not an error
deleteMarkdownFile(directory, filePath) ==
    [p \in DOMAIN directory |-> IF p = filePath THEN Absent ELSE directory[p]]

\* FileHandler.readMarkdownFiles / GitHubClient.getAllMarkdownFiles: the
\* files a directory holds, in listing order
readMarkdownFiles(directory, order) ==
    LET listed[i \in 0..Len(order)] ==
          IF i = 0 THEN <<>>
          ELSE IF exists(directory, order[i])
               THEN Append(listed[i - 1], order[i])
               ELSE listed[i - 1]
    IN listed[Len(order)]

\* SyncEngine.getRepoFiles
getRepoFiles ==
    LET files == readMarkdownFiles(disk, DiskOrder)
    IN [i \in 1..Len(files) |->
          [path |-> files[i],
           relativePath |-> relative(config.syncFolder, files[i]),
           content |-> disk[files[i]].content]]

\* SyncEngine.getWikiFiles = GitHubClient.getWikiPages
getWikiFiles ==
    LET files == readMarkdownFiles(workingCopy, WikiOrder)
    IN [i \in 1..Len(files) |->
          [name |-> filePathToWikiName(files[i]), path |-> files[i],
           content |-> workingCopy[files[i]].content]]

\* SyncEngine.getCurrentRepoState: a file read from disk carries no sha
getCurrentRepoState ==
    [i \in 1..Len(getRepoFiles) |->
       [path |-> getRepoFiles[i].relativePath, sha |-> EmptySha,
        content |-> getRepoFiles[i].content]]

\* SyncEngine.getCurrentWikiState
getCurrentWikiState ==
    [i \in 1..Len(getWikiFiles) |->
       [name |-> getWikiFiles[i].name, content |-> getWikiFiles[i].content]]

\* a Map is the sequence of its entries in insertion order
has(map, key) == \E i \in 1..Len(map) : map[i].key = key
get(map, key) == map[CHOOSE i \in 1..Len(map) : map[i].key = key].value
set(map, key, value) ==
    IF has(map, key)
    THEN [i \in 1..Len(map) |->
            IF map[i].key = key THEN [key |-> key, value |-> value]
            ELSE map[i]]
    ELSE Append(map, [key |-> key, value |-> value])

\* repoFileMap of detectChanges
repoFileMap ==
    LET files == getRepoFiles
        built[i \in 0..Len(files)] ==
          IF i = 0 THEN <<>>
          ELSE set(built[i - 1],
                   convertPathToWikiName(files[i].relativePath), files[i])
    IN built[Len(files)]

\* wikiFileMap of detectChanges
wikiFileMap ==
    LET files == getWikiFiles
        built[i \in 0..Len(files)] ==
          IF i = 0 THEN <<>> ELSE set(built[i - 1], files[i].name, files[i])
    IN built[Len(files)]

Change(type, source, direction, filePath, wikiName, content, oldContent) ==
    [type |-> type, source |-> source, direction |-> direction,
     filePath |-> filePath, wikiName |-> wikiName, content |-> content,
     oldContent |-> oldContent]

\* faulty variant: a secondary-only page is proposed for the primary store
\* without looking for the file on disk
wikiToRepoCreates_withoutAccess ==
    LET created[i \in 0..Len(wikiFileMap)] ==
          IF i = 0 THEN <<>>
          ELSE LET wikiName == wikiFileMap[i].key
                   repoPath == convertWikiNameToPath(wikiName,
                                                     config.syncFolder)
               IN IF ~has(repoFileMap, wikiName)
                  THEN Append(created[i - 1],
                              Change("create", "wiki", "wiki-to-repo", repoPath,
                                     wikiName, wikiFileMap[i].value.content,
                                     undefined))
                  ELSE created[i - 1]
    IN created[Len(wikiFileMap)]

\* detectChanges, second loop: pages of the wiki without file in the checkout
wikiToRepoCreates ==
    LET created[i \in 0..Len(wikiFileMap)] ==
          IF i = 0 THEN <<>>
          ELSE LET wikiName == wikiFileMap[i].key
                   repoPath == convertWikiNameToPath(wikiName,
                                                     config.syncFolder)
               IN IF ~has(repoFileMap, wikiName) /\ ~exists(disk, repoPath)
                  THEN Append(created[i - 1],
                              Change("create", "wiki", "wiki-to-repo", repoPath,
                                     wikiName, wikiFileMap[i].value.content,
                                     undefined))
                  ELSE created[i - 1]
    IN created[Len(wikiFileMap)]

\* faulty variant: two passes over repoFileMap, the creates before the updates
repoToWikiChanges_createsFirst ==
    LET created[i \in 0..Len(repoFileMap)] ==
          IF i = 0 THEN <<>>
          ELSE LET wikiName == repoFileMap[i].key
                   repoFile == repoFileMap[i].value
               IN IF ~has(wikiFileMap, wikiName)
                  THEN Append(created[i - 1],
                              Change("create", "repo", "repo-to-wiki",
                                     repoFile.relativePath, wikiName,
                                     repoFile.content, undefined))
                  ELSE created[i - 1]
        updated[i \in 0..Len(repoFileMap)] ==
          IF i = 0 THEN created[Len(repoFileMap)]
          ELSE LET wikiName == repoFileMap[i].key
                   repoFile == repoFileMap[i].value
               IN IF /\ has(wikiFileMap, wikiName)
                     /\ repoFile.content # get(wikiFileMap, wikiName).content
                  THEN Append(updated[i - 1],
                              Change("update", "repo", "repo-to-wiki",
                                     repoFile.relativePath, wikiName,
                                     repoFile.content,
                                     get(wikiFileMap, wikiName).content))
                  ELSE updated[i - 1]
    IN updated[Len(repoFileMap)]

\* detectChanges, first loop: files of the checkout that are missing in the
\* wiki or differ from their page
repoToWikiChanges ==
    LET found[i \in 0..Len(repoFileMap)] ==
          IF i = 0 THEN <<>>
          ELSE LET wikiName == repoFileMap[i].key
                   repoFile == repoFileMap[i].value
               IN IF ~has(wikiFileMap, wikiName)
                  THEN Append(found[i - 1],
                              Change("create", "repo", "repo-to-wiki",
                                     repoFile.relativePath, wikiName,
                                     repoFile.content, undefined))
                  ELSE IF repoFile.content # get(wikiFileMap, wikiName).content
                  THEN Append(found[i - 1],
                              Change("update", "repo", "repo-to-wiki",
                                     repoFile.relativePath, wikiName,
                                     repoFile.content,
                                     get(wikiFileMap, wikiName).content))
                  ELSE found[i - 1]
    IN found[Len(repoFileMap)]

\* detectChanges, third loop: pages whose file is gone from the checkout
wikiDeletes ==
    LET deleted[i \in 0..Len(wikiFileMap)] ==
          IF i = 0 THEN <<>>
          ELSE LET wikiName == wikiFileMap[i].key
               IN IF ~has(repoFileMap, wikiName)
                  THEN Append(deleted[i - 1],
                              Change("delete", "repo", "repo-to-wiki",
                                     convertWikiNameToPath(wikiName, <<>>),
                                     wikiName, undefined, undefined))
                  ELSE deleted[i - 1]
    IN deleted[Len(wikiFileMap)]

detectChanges ==
    repoToWikiChanges \o wikiToRepoCreates
      \o (IF config.syncDeletes # FALSE THEN wikiDeletes ELSE <<>>)

\* new Error(message)
Error(message) ==
    [kind |-> "Error", status |-> NoStatus, code |-> NoCode,
     hasMessage |-> TRUE, message |-> message]

\* errors raised by the engine and by the components it calls
SkipError == Error(<<"Skipping", "due", "to", "conflict">>)
BreakerOpenError == Error(<<"Circuit", "breaker", "is", "OPEN">>)
ThresholdError ==
    Error(<<"Maximum", "failure", "threshold", "exceeded.", "Aborting",
            "operation.">>)
FatalError(message) ==
    Error(<<"Fatal", "error", "or", "too", "many", "failures:">> \o message)

\* errors of the environment: a failed write or git command, and a token the
\* server rejects; the API answers 422 to a create for a path that holds a
\* file
WriteFailed == Error(<<"failed">>)
Unauthorized ==
    [kind |-> "Error",
     status |-> [type |-> "number", value |-> 401, text |-> ""],
     code |-> NoCode, hasMessage |-> TRUE, message |-> <<"unauthorized">>]
ShaNotSupplied ==
    [kind |-> "Error",
     status |-> [type |-> "number", value |-> 422, text |-> ""],
     code |-> NoCode, hasMessage |-> TRUE,
     message |-> <<"sha", "wasn't", "supplied">>]
EnvironmentErrors == {WriteFailed, Unauthorized}

\* `content || ''`
orEmpty(content) == IF content = undefined THEN <<>> ELSE content

\* path.join(this.wikiPath, `${change.wikiName}.md`), relative to the clone
wikiFilePath(change) == change.wikiName \o <<Md>>

Resolved(content, log) == [content |-> content, error |-> NoError, log |-> log]

\* faulty variant: the strategies repo-wins and wiki-wins are swapped
resolveConflict_swapped(change) ==
    CASE config.conflictStrategy = "repo-wins" ->
           Resolved(orEmpty(change.oldContent), <<>>)
      [] config.conflictStrategy = "wiki-wins" ->
           Resolved(orEmpty(change.content), <<>>)
      [] config.conflictStrategy = "skip" ->
           [content |-> undefined, error |-> SkipError, log |-> <<>>]
      [] config.conflictStrategy = "manual" ->
           Resolved(orEmpty(change.content),
                    << [call |-> "warning", path |-> change.filePath] >>)
      [] OTHER -> Resolved(orEmpty(change.content), <<>>)

resolveConflict(change) ==
    CASE config.conflictStrategy = "repo-wins" ->
           Resolved(orEmpty(change.content), <<>>)
      [] config.conflictStrategy = "wiki-wins" ->
           Resolved(orEmpty(change.oldContent), <<>>)
      [] config.conflictStrategy = "skip" ->
           [content |-> undefined, error |-> SkipError, log |-> <<>>]
      [] config.conflictStrategy = "manual" ->
           Resolved(orEmpty(change.content),
                    << [call |-> "warning", path |-> change.filePath] >>)
      [] OTHER -> Resolved(orEmpty(change.content), <<>>)

\* what one applyChange call does: the stores after it, the calls it made on
\* the file handler and the client, and the error it rejects with (NoError
\* when it resolves).  `failure` is the error of the environment that strikes
\* the last external call of the step, NoError when none does.
Applied(d, w, r, log, error) ==
    [disk |-> d, workingCopy |-> w, remote |-> r, log |-> log, error |-> error]

Write(store, path, content) ==
    [call |-> "writeMarkdownFile", store |-> store, path |-> path,
     content |-> content]

\* faulty variant: an Update under the strategy skip leaves the page and
\* returns
applyChange_skipReturns(change, failure) ==
    CASE change.type = "create" /\ change.direction = "repo-to-wiki"
           /\ wikiPath # "null" ->
           IF failure # NoError
           THEN Applied(disk, workingCopy, remote, <<>>, failure)
           ELSE Applied(disk,
                        writeMarkdownFile(workingCopy, wikiFilePath(change),
                                          orEmpty(change.content)),
                        remote,
                        << Write("wiki", wikiFilePath(change),
                                 orEmpty(change.content)) >>,
                        NoError)
      [] change.type = "create" /\ change.direction = "wiki-to-repo" ->
           LET written == writeMarkdownFile(disk, change.filePath,
                                            orEmpty(change.content))
               created == createFile(remote, change.filePath,
                                     orEmpty(change.content),
                                     failure # NoError)
               log == << Write("repo", change.filePath,
                               orEmpty(change.content)),
                         created.entry >>
           IN Applied(written, workingCopy, created.remote, log,
                      IF created.entry.ok THEN NoError
                      ELSE IF failure # NoError THEN failure
                      ELSE ShaNotSupplied)
      [] change.type = "update" /\ change.direction = "repo-to-wiki"
           /\ wikiPath # "null" ->
           LET resolved == resolveConflict(change)
           IN IF resolved.error # NoError
              THEN Applied(disk, workingCopy, remote, resolved.log, NoError)
              ELSE IF failure # NoError
              THEN Applied(disk, workingCopy, remote, resolved.log, failure)
              ELSE Applied(disk,
                           writeMarkdownFile(workingCopy, wikiFilePath(change),
                                             resolved.content),
                           remote,
                           resolved.log
                             \o << Write("wiki", wikiFilePath(change),
                                         resolved.content) >>,
                           NoError)
      [] change.type = "delete" /\ change.direction = "repo-to-wiki"
           /\ wikiPath # "null" ->
           IF failure # NoError
           THEN Applied(disk, workingCopy, remote, <<>>, failure)
           ELSE Applied(disk,
                        deleteMarkdownFile(workingCopy, wikiFilePath(change)),
                        remote,
                        << [call |-> "deleteMarkdownFile", store |-> "wiki",
                            path |-> wikiFilePath(change),
                            content |-> undefined] >>,
                        NoError)
      [] OTHER -> Applied(disk, workingCopy, remote, <<>>, NoError)

\* applyChange; detectChanges proposes no Update and no Delete for the
\* primary store, so the two wiki-to-repo branches that read the file's sha
\* are never entered
applyChange(change, failure) ==
    CASE change.type = "create" /\ change.direction = "repo-to-wiki"
           /\ wikiPath # "null" ->
           IF failure # NoError
           THEN Applied(disk, workingCopy, remote, <<>>, failure)
           ELSE Applied(disk,
                        writeMarkdownFile(workingCopy, wikiFilePath(change),
                                          orEmpty(change.content)),
                        remote,
                        << Write("wiki", wikiFilePath(change),
                                 orEmpty(change.content)) >>,
                        NoError)
      [] change.type = "create" /\ change.direction = "wiki-to-repo" ->
           LET written == writeMarkdownFile(disk, change.filePath,
                                            orEmpty(change.content))
               created == createFile(remote, change.filePath,
                                     orEmpty(change.content),
                                     failure # NoError)
               log == << Write("repo", change.filePath,
                               orEmpty(change.content)),
                         created.entry >>
           IN Applied(written, workingCopy, created.remote, log,
                      IF created.entry.ok THEN NoError
                      ELSE IF failure # NoError THEN failure
                      ELSE ShaNotSupplied)
      [] change.type = "update" /\ change.direction = "repo-to-wiki"
           /\ wikiPath # "null" ->
           LET resolved == resolveConflict(change)
           IN IF resolved.error # NoError
              THEN Applied(disk, workingCopy, remote, resolved.log,
                           resolved.error)
              ELSE IF failure # NoError
              THEN Applied(disk, workingCopy, remote, resolved.log, failure)
              ELSE Applied(disk,
                           writeMarkdownFile(workingCopy, wikiFilePath(change),
                                             resolved.content),
                           remote,
                           resolved.log
                             \o << Write("wiki", wikiFilePath(change),
                                         resolved.content) >>,
                           NoError)
      [] change.type = "delete" /\ change.direction = "repo-to-wiki"
           /\ wikiPath # "null" ->
           IF failure # NoError
           THEN Applied(disk, workingCopy, remote, <<>>, failure)
           ELSE Applied(disk,
                        deleteMarkdownFile(workingCopy, wikiFilePath(change)),
                        remote,
                        << [call |-> "deleteMarkdownFile", store |-> "wiki",
                            path |-> wikiFilePath(change),
                            content |-> undefined] >>,
                        NoError)
      [] OTHER -> Applied(disk, workingCopy, remote, <<>>, NoError)

\* defaults of new CircuitBreaker(), new PartialFailureHandler() and
\* retryWithBackoff
DefaultThreshold == 5
DefaultTimeout == 60000
DefaultMaxFailureThreshold == 10
DefaultMaxRetries == 3
DefaultBaseDelay == 1000

ConflictStrategies == {"repo-wins", "wiki-wins", "manual", "skip"}

\* the configurations: each strategy with delete synchronisation (the
\* default), and one without
Configs ==
    {[syncFolder |-> SyncFolder, conflictStrategy |-> s, syncDeletes |-> TRUE] :
       s \in ConflictStrategies}
      \cup {[syncFolder |-> SyncFolder, conflictStrategy |-> "repo-wins",
             syncDeletes |-> FALSE]}

\* the checkout and the wiki before the first run: the files of the checkout
\* hold c1; the page a holds c1 or c2, the page a-b holds c2, the page a--b
\* holds c1
InitialDisks == [DiskPaths -> {Absent, File(c1)}]
InitialWikis ==
    {w \in [WikiFiles -> {Absent, File(c1), File(c2)}] :
       /\ w[<<"a", "-", "b", ".md">>] # File(c1)
       /\ w[<<"a", "-", "-", "b", ".md">>] # File(c2)}

\* the engine after construction, with the checkout of the repository on
\* disk
SEInit ==
    /\ config \in Configs
    /\ disk \in InitialDisks
    /\ wiki \in InitialWikis
    /\ wikiPath = "null"
    /\ workingCopy = NoDirectory
    /\ sePc = "idle"
    /\ changes = <<>>
    /\ changeIndex = 1
    /\ result = NoResult
    /\ transactionId = 0
    /\ syncError = NoError
    /\ syncCall = NoSyncCall
    /\ runs = 0
    /\ injected = 0
    /\ applyLog = <<>>
    /\ now = 0
    /\ failureCount = 0
    /\ lastFailureTime = 0
    /\ state = "CLOSED"
    /\ threshold = DefaultThreshold
    /\ timeout = DefaultTimeout
    /\ cbPc = "idle"
    /\ cbCall = NoCall
    /\ cbFailedCalls = 0
    /\ FHIdle
    /\ PFHIdle
    /\ transaction = NoTransaction
    /\ checkpoints = EmptyMap
    /\ remote = [p \in RemotePaths |-> IF p \in DiskPaths THEN disk[p]
                                       ELSE Absent]
    /\ nextId = 1
    /\ tmCall = NoManagerCall(remote)
    /\ closedTx = NoTransaction
    /\ checkpointCalls = 0
    /\ EHIdle

\* `error instanceof Error ? error.message : String(error)`
messageOf(error) ==
    CASE error.kind = "Error" -> error.message
      [] error.kind = "string" -> error.message
      [] error.kind = "object" -> ObjectString
      [] OTHER -> UndefinedString

\* the counters an apply step can move
Counters ==
    [changesApplied |-> result.changesApplied,
     errors |-> Len(result.errors),
     operations |-> Len(transaction.operations),
     successes |-> Len(successfulOperations),
     failures |-> Len(failedOperations)]

change == changes[changeIndex]

\* the SyncOperation handed to recordOperation, and the one handed to the
\* failure handler
operationOf(c) ==
    [type |-> c.type, path |-> c.filePath, content |-> c.content,
     previousContent |-> c.oldContent]
handlerOperationOf(c) ==
    [type |-> c.type, path |-> c.filePath, content |-> c.content]

\* faulty variant: every sync() call guards its apply steps with a breaker of
\* its own
circuitBreaker_perCall ==
    [failureCount |-> 0, lastFailureTime |-> 0, state |-> "CLOSED"]

\* this.circuitBreaker as a sync() call finds it: the breaker the constructor
\* built, holding what the earlier calls on the engine left in it
circuitBreaker ==
    [failureCount |-> failureCount, lastFailureTime |-> lastFailureTime,
     state |-> state]

\* sync() up to the first await inside retryWithBackoff: the result object,
\* beginTransaction, the path of the clone (a fresh path, at which no
\* directory exists yet)
sync ==
    /\ sePc = "idle"
    /\ failureCount' = circuitBreaker.failureCount
    /\ lastFailureTime' = circuitBreaker.lastFailureTime
    /\ state' = circuitBreaker.state
    /\ runs' = runs + 1
    /\ result' = NoResult
    /\ transactionId' = nextId
    /\ beginTransaction
    /\ wikiPath' = "wiki-sync"
    /\ retryWithBackoff(DefaultMaxRetries, DefaultBaseDelay)
    /\ sePc' = "clone"
    /\ changes' = <<>>
    /\ changeIndex' = 1
    /\ syncError' = NoError
    /\ syncCall' =
         [NoSyncCall EXCEPT
            !.previous =
               [outcome |-> syncCall.outcome, clean |-> result.errors = <<>>,
                kinds |-> {<<changes[i].type, changes[i].direction>> :
                             i \in 1..Len(changes)},
                breaker |-> [state |-> state,
                             failureCount |-> failureCount]]]
    /\ applyLog' = <<>>
    /\ workingCopy' = NoDirectory
    /\ UNCHANGED <<config, disk, wiki, injected, remote>>

\* git clone resolves: the clone holds the pages of the wiki
cloneResolves ==
    /\ sePc = "clone"
    /\ operationResolves
    /\ workingCopy' = wiki
    /\ sePc' = "checkpoint"
    /\ UNCHANGED <<config, disk, wiki, wikiPath, changes, changeIndex, result,
                   transactionId, syncError, syncCall, runs, injected,
                   applyLog>>

\* the retried operation (clone, or commit and push) rejects: retryWithBackoff
\* either waits or rethrows into the catch block of sync(); a call that
\* fails from its first attempt on counts as one failure of the environment,
\* and fails with the same error at each retry
retriedRejects(error) ==
    /\ sePc \in {"clone", "push"}
    /\ operationRejects(error)
    /\ IF rwPc' = "raised"
       THEN /\ sePc' = "catch"
            /\ syncError' = rwRaised'
            /\ syncCall' = IF sePc = "push"
                           THEN [syncCall EXCEPT !.push = "raised"]
                           ELSE syncCall
       ELSE UNCHANGED <<sePc, syncError, syncCall>>
    /\ injected' = IF attempt = 1 THEN injected + 1 ELSE injected
    /\ UNCHANGED <<config, disk, wiki, wikiPath, workingCopy, changes,
                   changeIndex, result, transactionId, runs, applyLog>>

retryTimer ==
    /\ sePc \in {"clone", "push"}
    /\ timerFires
    /\ UNCHANGED seVars

\* lines 58-68 of sync(): the checkpoint, the detected changes, the failure
\* handler
checkpointAndDetect ==
    /\ sePc = "checkpoint"
    /\ createCheckpoint(getCurrentRepoState, getCurrentWikiState)
    /\ changes' = detectChanges
    /\ changeIndex' = 1
    /\ successfulOperations' = <<>>
    /\ failedOperations' = <<>>
    /\ continueOnError' = TRUE
    /\ maxFailureThreshold' = DefaultMaxFailureThreshold
    /\ pfhCall' = NoHandlerCall
    /\ lastRecordFailure' = "none"
    /\ recordSuccessCalls' = 0
    /\ recordFailureCalls' = 0
    /\ sePc' = "apply"
    /\ UNCHANGED <<config, disk, wiki, wikiPath, workingCopy, result,
                   transactionId, syncError, syncCall, runs, injected,
                   applyLog, remote>>

\* faulty variant: every failed apply ends the run
caught_anyFailureAborts(error, before, log) ==
    /\ classifyCall(error)
    /\ result' = [result EXCEPT
                    !.errors = Append(@, [change |-> change,
                                          error |-> ehContext'.message])]
    /\ PartialFailureHandler_recordFailure(handlerOperationOf(change), error)
    /\ syncError' = IF lastRecordFailure' # "returned" THEN ThresholdError
                    ELSE FatalError(ehContext'.message)
    /\ sePc' = "catch"
    /\ UNCHANGED changeIndex
    /\ applyLog' =
         Append(applyLog,
                [change |-> change, strategy |-> config.conflictStrategy,
                 log |-> log, error |-> error, before |-> before,
                 after |-> Counters'])

\* faulty variant: a fatal error is recorded and the loop goes on
caught_fatalContinues(error, before, log) ==
    /\ classifyCall(error)
    /\ result' = [result EXCEPT
                    !.errors = Append(@, [change |-> change,
                                          error |-> ehContext'.message])]
    /\ PartialFailureHandler_recordFailure(handlerOperationOf(change), error)
    /\ IF lastRecordFailure' # "returned"
       THEN /\ syncError' = ThresholdError
            /\ sePc' = "catch"
            /\ UNCHANGED changeIndex
       ELSE /\ changeIndex' = changeIndex + 1
            /\ sePc' = "apply"
            /\ UNCHANGED syncError
    /\ applyLog' =
         Append(applyLog,
                [change |-> change, strategy |-> config.conflictStrategy,
                 log |-> log, error |-> error, before |-> before,
                 after |-> Counters'])

\* faulty variant: a fatal error ends the run before the handler records the
\* failure
caught_fatalUnrecorded(error, before, log) ==
    /\ classifyCall(error)
    /\ result' = [result EXCEPT
                    !.errors = Append(@, [change |-> change,
                                          error |-> ehContext'.message])]
    /\ IF ehContext'.fatal
       THEN /\ UNCHANGED pfhVars
            /\ syncError' = FatalError(ehContext'.message)
            /\ sePc' = "catch"
            /\ UNCHANGED changeIndex
       ELSE /\ PartialFailureHandler_recordFailure(handlerOperationOf(change),
                                                   error)
            /\ IF lastRecordFailure' # "returned"
               THEN /\ syncError' = ThresholdError
                    /\ sePc' = "catch"
                    /\ UNCHANGED changeIndex
               ELSE /\ changeIndex' = changeIndex + 1
                    /\ sePc' = "apply"
                    /\ UNCHANGED syncError
    /\ applyLog' =
         Append(applyLog,
                [change |-> change, strategy |-> config.conflictStrategy,
                 log |-> log, error |-> error, before |-> before,
                 after |-> Counters'])

\* the catch block of the loop: the error is classified and recorded, and the
\* run goes on with the next change unless the error is fatal or the handler
\* says stop
caught(error, before, log) ==
    /\ classifyCall(error)
    /\ result' = [result EXCEPT
                    !.errors = Append(@, [change |-> change,
                                          error |-> ehContext'.message])]
    /\ PartialFailureHandler_recordFailure(handlerOperationOf(change), error)
    /\ IF lastRecordFailure' # "returned"
       THEN /\ syncError' = ThresholdError
            /\ sePc' = "catch"
            /\ UNCHANGED changeIndex
       ELSE IF ehContext'.fatal \/ ~shouldContinue'
       THEN /\ syncError' = FatalError(ehContext'.message)
            /\ sePc' = "catch"
            /\ UNCHANGED changeIndex
       ELSE /\ changeIndex' = changeIndex + 1
            /\ sePc' = "apply"
            /\ UNCHANGED syncError
    /\ applyLog' =
         Append(applyLog,
                [change |-> change, strategy |-> config.conflictStrategy,
                 log |-> log, error |-> error, before |-> before,
                 after |-> Counters'])

\* circuitBreaker.execute is called for the next change; an OPEN breaker
\* rejects the call at once
applyExecute ==
    /\ sePc = "apply"
    /\ changeIndex <= Len(changes)
    /\ executeEnter
    /\ UNCHANGED <<config, disk, wiki, wikiPath, workingCopy, changes,
                   transactionId, syncCall, runs, injected, tmVars>>
    /\ IF cbPc' = "running"
       THEN /\ sePc' = "operation"
            /\ UNCHANGED <<changeIndex, result, syncError, applyLog, pfhVars,
                           ehVars>>
       ELSE caught(BreakerOpenError, Counters, <<>>)

\* applyChange resolves: the operation is recorded and counted
applyResolves ==
    /\ sePc = "operation"
    /\ isInTransaction
    /\ LET applied == applyChange(change, NoError)
       IN /\ applied.error = NoError
          /\ disk' = applied.disk
          /\ workingCopy' = applied.workingCopy
          /\ remote' = applied.remote
          /\ executeReturn
          /\ recordOperation(operationOf(change))
          /\ recordSuccess(handlerOperationOf(change))
          /\ result' = [result EXCEPT !.changesApplied = @ + 1]
          /\ applyLog' =
               Append(applyLog,
                      [change |-> change, strategy |-> config.conflictStrategy,
                       log |-> applied.log, error |-> NoError,
                       before |-> Counters, after |-> Counters'])
    /\ changeIndex' = changeIndex + 1
    /\ sePc' = "apply"
    /\ UNCHANGED <<config, wiki, wikiPath, changes, transactionId, syncError,
                   syncCall, runs, injected, ehVars>>

\* applyChange rejects, by itself (failure = NoError) or because the
\* environment fails a call that would have gone through
applyRejects(failure) ==
    /\ sePc = "operation"
    /\ failure # NoError => applyChange(change, NoError).error = NoError
    /\ injected' = IF failure # NoError THEN injected + 1 ELSE injected
    /\ UNCHANGED <<config, wiki, wikiPath, changes, transactionId, syncCall,
                   runs, transaction, checkpoints, nextId, tmCall, closedTx,
                   checkpointCalls>>
    /\ LET applied == applyChange(change, failure)
       IN /\ applied.error # NoError
          /\ disk' = applied.disk
          /\ workingCopy' = applied.workingCopy
          /\ remote' = applied.remote
          /\ executeThrow
          /\ caught(applied.error, Counters, applied.log)

\* after the loop, with changes applied: commit and push are retried
pushStarts ==
    /\ sePc = "apply"
    /\ changeIndex > Len(changes)
    /\ result.changesApplied > 0
    /\ retryWithBackoff(DefaultMaxRetries, DefaultBaseDelay)
    /\ sePc' = "push"
    /\ syncCall' = [syncCall EXCEPT !.push = "started"]
    /\ UNCHANGED <<config, disk, wiki, wikiPath, workingCopy, changes,
                   changeIndex, result, transactionId, syncError, runs,
                   injected, applyLog>>

\* faulty variant: the commit stays in the clone
pushResolves_withoutPush ==
    /\ sePc = "push"
    /\ operationResolves
    /\ wiki' = wiki
    /\ sePc' = "commit"
    /\ syncCall' = [syncCall EXCEPT !.push = "resolved"]
    /\ UNCHANGED <<config, disk, wikiPath, workingCopy, changes, changeIndex,
                   result, transactionId, syncError, runs, injected,
                   applyLog>>

\* git commit and git push resolve: the wiki holds what the clone holds
pushResolves ==
    /\ sePc = "push"
    /\ operationResolves
    /\ wiki' = workingCopy
    /\ sePc' = "commit"
    /\ syncCall' = [syncCall EXCEPT !.push = "resolved"]
    /\ UNCHANGED <<config, disk, wikiPath, workingCopy, changes, changeIndex,
                   result, transactionId, syncError, runs, injected,
                   applyLog>>

\* the error of an fs.rm call that rejects
RmError == Error(<<"rm", "failed">>)

\* faulty variant: the rejection of fs.rm leaves cleanup()
cleanup_rethrows(rmRejects) ==
    [outcome |-> IF rmRejects THEN "failed" ELSE "removed",
     directory |-> IF rmRejects THEN workingCopy ELSE NoDirectory,
     raised |-> IF rmRejects THEN RmError ELSE NoError]

\* cleanup(): fs.rm removes the clone; its rejection is caught and logged as
\* a warning, so that cleanup() raises nothing
cleanup(rmRejects) ==
    [outcome |-> IF rmRejects THEN "failed" ELSE "removed",
     directory |-> IF rmRejects THEN workingCopy ELSE NoDirectory,
     raised |-> NoError]

\* the finally block of sync(): cleanup() is awaited when this.wikiPath is
\* set; `pending` is the return or throw the try and catch blocks left, which
\* an error raised in the finally block would replace
finallyBlock(pending, rmRejects) ==
    LET cleaned == IF wikiPath # "null" THEN cleanup(rmRejects)
                   ELSE [outcome |-> "none", directory |-> workingCopy,
                         raised |-> NoError]
    IN /\ workingCopy' = cleaned.directory
       /\ syncCall' =
            IF cleaned.raised # NoError
            THEN [pending EXCEPT !.outcome = "raised",
                                 !.error = cleaned.raised,
                                 !.result = NoResult,
                                 !.cleanup = cleaned.outcome]
            ELSE [pending EXCEPT !.cleanup = cleaned.outcome]

\* faulty variant: the end of the loop goes on to the commit, whatever was
\* applied
syncReturns_withoutPush(rmRejects) ==
    /\ \/ sePc = "commit"
       \/ /\ sePc = "apply"
          /\ changeIndex > Len(changes)
    /\ isInTransaction
    /\ commit
    /\ result' = [result EXCEPT !.summary = "Synchronization completed"]
    /\ finallyBlock([outcome |-> "returned", error |-> NoError,
                      result |-> result', rollback |-> "none",
                      cleanup |-> "none", push |-> syncCall.push,
                      previous |-> syncCall.previous],
                     rmRejects)
    /\ sePc' = "idle"
    /\ UNCHANGED <<config, disk, wiki, wikiPath, changes, changeIndex,
                   transactionId, syncError, runs, injected, applyLog, remote>>

\* the end of the try block: the transaction is committed, the summary is
\* written, the finally block runs and the result is returned
syncReturns(rmRejects) ==
    /\ \/ sePc = "commit"
       \/ /\ sePc = "apply"
          /\ changeIndex > Len(changes)
          /\ result.changesApplied = 0
    /\ isInTransaction
    /\ commit
    /\ result' = [result EXCEPT !.summary = "Synchronization completed"]
    /\ finallyBlock([outcome |-> "returned", error |-> NoError,
                      result |-> result', rollback |-> "none",
                      cleanup |-> "none", push |-> syncCall.push,
                      previous |-> syncCall.previous],
                     rmRejects)
    /\ sePc' = "idle"
    /\ UNCHANGED <<config, disk, wiki, wikiPath, changes, changeIndex,
                   transactionId, syncError, runs, injected, applyLog, remote>>

\* the error of a rollback that raised
RollbackError(outcome) ==
    IF outcome = "No checkpoint available for rollback"
    THEN Error(<<"No", "checkpoint", "available", "for", "rollback">>)
    ELSE Error(<<"No", "active", "transaction">>)

\* faulty variant: the error of a failed rollback replaces the error that
\* ended the run
thrown_rollbackErrorWins(error, rollbackOutcome) ==
    IF rollbackOutcome \in {"none", "returned"} THEN error
    ELSE RollbackError(rollbackOutcome)

\* `throw error` at the end of the catch block: the rollback error was caught
\* and logged
thrown(error, rollbackOutcome) == error

\* the remote calls of a rollback that no failure of the environment disturbs
undisturbedLog ==
    IF transaction.checkpoints = <<>> THEN <<>>
    ELSE restoreRepositoryState(
            initialCheckpoint.repoState,
            [i \in 1..Len(initialCheckpoint.repoState) |->
               [read |-> FALSE, write |-> FALSE]]).log

\* faulty variant: the pages of the checkpoint are written back into the
\* clone
restoreWikiState_writesPages(wikiState, directory) ==
    LET written[i \in 0..Len(wikiState)] ==
          IF i = 0 THEN directory
          ELSE writeMarkdownFile(written[i - 1], wikiState[i].name \o <<Md>>,
                                 wikiState[i].content)
    IN written[Len(wikiState)]

\* TransactionManager.restoreWikiState, called by rollback() after the
\* repository was restored: it logs a warning and the page names, and leaves
\* the clone (its argument `directory` here) as it is
restoreWikiState(wikiState, directory) == directory

\* the catch block of sync(): the result is marked failed, the rollback is
\* attempted and its error swallowed; the error to throw again is kept
syncRaises ==
    /\ sePc = "catch"
    /\ result' = [result EXCEPT
                    !.success = FALSE,
                    !.errors = Append(@, [phase |-> "sync",
                                          error |-> messageOf(syncError)])]
    /\ IF transactionId # 0 /\ isInTransaction
       THEN /\ rollback
            /\ workingCopy' =
                 IF tmCall'.outcome = "returned"
                 THEN restoreWikiState(initialCheckpoint.wikiState,
                                       workingCopy)
                 ELSE workingCopy
       ELSE UNCHANGED <<tmVars, workingCopy>>
    /\ LET rollbackOutcome == IF transactionId # 0 /\ isInTransaction
                              THEN tmCall'.outcome ELSE "none"
       IN syncCall' = [syncCall EXCEPT
                         !.error = thrown(syncError, rollbackOutcome),
                         !.rollback = rollbackOutcome]
    /\ injected' = IF tmCall'.remoteLog # undisturbedLog THEN injected + 1
                    ELSE injected
    /\ sePc' = "finally"
    /\ UNCHANGED <<config, disk, wiki, wikiPath, changes, changeIndex,
                   transactionId, syncError, runs, applyLog>>

\* `throw error` at the end of the catch block: the finally block runs and
\* sync() raises
syncThrows(rmRejects) ==
    /\ sePc = "finally"
    /\ finallyBlock([syncCall EXCEPT !.outcome = "raised",
                                     !.result = NoResult], rmRejects)
    /\ sePc' = "idle"
    /\ UNCHANGED <<config, disk, wiki, wikiPath, changes, changeIndex, result,
                   transactionId, syncError, runs, injected, applyLog>>

\* between two runs, while the breaker is OPEN, more time than its timeout
\* passes (the clock is read nowhere else)
timePasses ==
    /\ sePc = "idle"
    /\ state = "OPEN"
    /\ ~timeoutElapsed
    /\ now' = lastFailureTime + timeout + 1
    /\ UNCHANGED <<failureCount, lastFailureTime, state, threshold, timeout,
                   cbPc, cbCall, cbFailedCalls>>

SENext ==
    \/ /\ runs < MaxRuns
       /\ sync
       /\ UNCHANGED <<now, threshold, timeout, cbPc, cbCall, cbFailedCalls,
                      pfhVars, fhVars>>
    \/ cloneResolves /\ UNCHANGED <<cbVars, pfhVars, tmVars, fhVars>>
    \/ \E error \in EnvironmentErrors :
         /\ attempt = 1 => injected < MaxInjected
         /\ attempt > 1 => error = lastError
         /\ retriedRejects(error)
         /\ UNCHANGED <<cbVars, pfhVars, tmVars, fhVars>>
    \/ retryTimer /\ UNCHANGED <<cbVars, pfhVars, tmVars, fhVars>>
    \/ checkpointAndDetect /\ UNCHANGED <<cbVars, ehVars, fhVars>>
    \/ applyExecute /\ UNCHANGED fhVars
    \/ applyResolves /\ UNCHANGED fhVars
    \/ \E failure \in {NoError} \cup EnvironmentErrors :
         /\ failure # NoError => injected < MaxInjected
         /\ applyRejects(failure)
         /\ UNCHANGED fhVars
    \/ pushStarts /\ UNCHANGED <<cbVars, pfhVars, tmVars, fhVars>>
    \/ pushResolves /\ UNCHANGED <<cbVars, pfhVars, tmVars, fhVars>>
    \/ \E rmRejects \in BOOLEAN :
         /\ syncReturns(rmRejects)
         /\ UNCHANGED <<cbVars, pfhVars, ehVars, fhVars>>
    \/ /\ syncRaises
       /\ injected' <= MaxInjected
       /\ UNCHANGED <<cbVars, pfhVars, ehVars, fhVars>>
    \/ \E rmRejects \in BOOLEAN :
         /\ syncThrows(rmRejects)
         /\ UNCHANGED <<cbVars, pfhVars, tmVars, ehVars, fhVars>>
    \/ timePasses /\ UNCHANGED <<pfhVars, tmVars, ehVars, seVars, fhVars>>

SESpec == SEInit /\ [][SENext]_vars

-----------------------------------------------------------------------------
(***************************************************************************)
(* The apply loop of one sync() call over a long change list               *)
(***************************************************************************)
\* changes of one call
MaxChanges == 12

\* the k-th page and the k-th file of the sync folder; a listing yields them
\* in this order
PageName(k) == [i \in 1..k |-> "a"]
FilePath(k) == SyncFolder \o <<Sep>> \o PageName(k) \o <<Md>>

\* the checkout holds n files with content c1, the first u of them have a
\* page with content c2 and the others no page
FilesOnDisk(n) ==
    [p \in {FilePath(k) : k \in 1..n} |-> File(c1)]
PagesOfWiki(u) ==
    [p \in {PageName(k) \o <<Md>> : k \in 1..u} |-> File(c2)]

\* what detectChanges returns for these stores: an Update for each of the
\* first u files and a Create for each of the others
ChangesDetected(n, u) ==
    [k \in 1..n |->
       IF k <= u
       THEN Change("update", "repo", "repo-to-wiki",
                   PageName(k) \o <<Md>>, PageName(k), c1, c2)
       ELSE Change("create", "repo", "repo-to-wiki",
                   PageName(k) \o <<Md>>, PageName(k), c1, undefined)]

\* the checkpoint createCheckpoint built from getCurrentRepoState and
\* getCurrentWikiState
CheckpointTaken(n, u) ==
    LET repoState == [k \in 1..n |->
                        [path |-> PageName(k) \o <<Md>>, sha |-> EmptySha,
                         content |-> c1]]
        wikiState == [k \in 1..u |-> [name |-> PageName(k), content |-> c2]]
    IN [timestamp |-> 0, repoState |-> repoState, wikiState |-> wikiState,
        hash |-> calculateHash(repoState, wikiState)]

\* the first sync() call of an engine when it enters its loop (line 71):
\* the transaction is open with its checkpoint, the clone holds the pages of
\* the wiki, the handler was just created, the breaker is as constructed
LoopInit ==
    /\ \E n \in 1..MaxChanges, u \in 0..MaxChanges :
         /\ n - u \in 0..1
         /\ disk = FilesOnDisk(n)
         /\ wiki = PagesOfWiki(u)
         /\ changes = ChangesDetected(n, u)
         /\ transaction =
              [id |-> 1, operations |-> <<>>, status |-> "pending",
               checkpoints |-> << CheckpointTaken(n, u) >>]
    /\ config \in {c \in Configs : /\ c.syncDeletes
                                   /\ c.conflictStrategy
                                        \in {"skip", "repo-wins"}}
    /\ workingCopy = wiki
    /\ wikiPath = "wiki-sync"
    /\ sePc = "apply"
    /\ changeIndex = 1
    /\ result = NoResult
    /\ transactionId = 1
    /\ syncError = NoError
    /\ syncCall = NoSyncCall
    /\ runs = 1
    /\ injected = 0
    /\ applyLog = <<>>
    /\ now = 0
    /\ failureCount = 0
    /\ lastFailureTime = 0
    /\ state = "CLOSED"
    /\ threshold = DefaultThreshold
    /\ timeout = DefaultTimeout
    /\ cbPc = "idle"
    /\ cbCall = NoCall
    /\ cbFailedCalls = 0
    /\ successfulOperations = <<>>
    /\ failedOperations = <<>>
    /\ continueOnError = TRUE
    /\ maxFailureThreshold = DefaultMaxFailureThreshold
    /\ pfhCall = NoHandlerCall
    /\ lastRecordFailure = "none"
    /\ recordSuccessCalls = 0
    /\ recordFailureCalls = 0
    /\ checkpoints =
         [h \in {transaction.checkpoints[1].hash} |->
            transaction.checkpoints[1]]
    /\ remote = disk
    /\ nextId = 2
    /\ tmCall = [name |-> "createCheckpoint", outcome |-> "returned",
                 wasOpen |-> TRUE, remoteLog |-> <<>>, remoteBefore |-> remote]
    /\ closedTx = NoTransaction
    /\ checkpointCalls = 1
    /\ EHIdle
    /\ FHIdle

\* an await of the loop takes longer than the timeout of the OPEN breaker
awaitTakesLong ==
    /\ sePc = "apply"
    /\ changeIndex <= Len(changes)
    /\ state = "OPEN"
    /\ ~timeoutElapsed
    /\ now' = lastFailureTime + timeout + 1
    /\ UNCHANGED <<failureCount, lastFailureTime, state, threshold, timeout,
                   cbPc, cbCall, cbFailedCalls>>

LoopNext ==
    \/ applyExecute /\ UNCHANGED fhVars
    \/ applyResolves /\ UNCHANGED fhVars
    \/ applyRejects(NoError) /\ UNCHANGED fhVars
    \/ awaitTakesLong /\ UNCHANGED <<pfhVars, tmVars, ehVars, seVars, fhVars>>

LoopSpec == LoopInit /\ [][LoopNext]_vars

\* the logical names of the two stores when detectChanges runs: of a file
\* of the checkout the name its relative path converts to, of a page its name
primaryNames ==
    {convertPathToWikiName(relative(config.syncFolder, p)) :
       p \in {q \in DOMAIN disk : disk[q].present}}
secondaryNames ==
    {filePathToWikiName(f) : f \in {g \in DOMAIN workingCopy :
                                      workingCopy[g].present}}
primaryOnly == primaryNames \ secondaryNames
secondaryOnly == secondaryNames \ primaryNames

\* the names of both stores carry the same content on both sides
SharedNamesEqual ==
    \A p \in DOMAIN disk, f \in DOMAIN workingCopy :
       (/\ disk[p].present
        /\ workingCopy[f].present
        /\ convertPathToWikiName(relative(config.syncFolder, p))
             = filePathToWikiName(f))
         => disk[p].content = workingCopy[f].content

\* the secondary-only names whose path in the sync folder holds no file
secondaryOnlyWithoutFile ==
    {n \in secondaryOnly :
       ~exists(disk, convertWikiNameToPath(n, config.syncFolder))}

Count(type, direction) ==
    Cardinality({i \in 1..Len(changes) :
                   changes[i].type = type /\ changes[i].direction = direction})

\* detectChanges has just returned, with delete synchronisation enabled
DetectedWithDeletes ==
    /\ sePc = "apply"
    /\ changeIndex = 1
    /\ config.syncDeletes

\* C15 as stated: |A| Creates for the wiki, |B| Creates for the repository
\* and |B| Deletes, |A| + 2|B| changes in total.
C15_AsStated ==
    (DetectedWithDeletes /\ SharedNamesEqual)
      => (/\ Count("create", "repo-to-wiki") = Cardinality(primaryOnly)
          /\ Count("create", "wiki-to-repo") = Cardinality(secondaryOnly)
          /\ Count("delete", "repo-to-wiki") = Cardinality(secondaryOnly)
          /\ Len(changes)
               = Cardinality(primaryOnly) + 2 * Cardinality(secondaryOnly))

\* C15: with delete synchronisation enabled and equal content on all shared
\* names, detectChanges returns one Create for the wiki per primary-only
\* name, one Create for the repository per secondary-only name whose path in
\* the sync folder holds no file, and one Delete of the page per
\* secondary-only name, and nothing else.
C15_DetectedCardinalities ==
    (DetectedWithDeletes /\ SharedNamesEqual)
      => (/\ Count("create", "repo-to-wiki") = Cardinality(primaryOnly)
          /\ Count("create", "wiki-to-repo")
               = Cardinality(secondaryOnlyWithoutFile)
          /\ Count("delete", "repo-to-wiki") = Cardinality(secondaryOnly)
          /\ Len(changes)
               = Cardinality(primaryOnly)
                   + Cardinality(secondaryOnlyWithoutFile)
                   + Cardinality(secondaryOnly))

C15_Witness ==
    /\ DetectedWithDeletes
    /\ SharedNamesEqual
    /\ primaryOnly # {}
    /\ secondaryOnlyWithoutFile # {}
    /\ secondaryOnlyWithoutFile # secondaryOnly
    /\ Len(changes) = 4

\* the run in progress, or the last one, follows a run that returned
AfterCompletedRun ==
    /\ runs >= 2
    /\ syncCall.previous.outcome = "returned"

\* C16 as stated: for every initial state and every strategy, a run that
\* follows a completed run detects no differences and applies no change.
C16_AsStated ==
    AfterCompletedRun => (changes = <<>> /\ result.changesApplied = 0)

\* the changes a run can make good for the next one: pages created or
\* updated from the checkout
RepoToWikiWrites == {<<"create", "repo-to-wiki">>, <<"update", "repo-to-wiki">>}

\* C16: under repo-wins or manual, a run that follows a run which detected
\* only Creates and Updates for the wiki, applied them all without error and
\* returned, detects no differences and reports changesApplied = 0.
C16_IdempotentAfterCleanRepoToWikiRun ==
    (/\ AfterCompletedRun
     /\ config.conflictStrategy \in {"repo-wins", "manual"}
     /\ syncCall.previous.clean
     /\ syncCall.previous.kinds \subseteq RepoToWikiWrites)
      => (changes = <<>> /\ result.changesApplied = 0)

C16_Witness ==
    /\ AfterCompletedRun
    /\ config.conflictStrategy = "manual"
    /\ syncCall.previous.clean
    /\ syncCall.previous.kinds = RepoToWikiWrites
    /\ syncCall.outcome = "returned"
    /\ syncCall.result.changesApplied = 0
    /\ changes = <<>>

IsWrite(entry) == entry.call = "writeMarkdownFile"
IsWarning(entry) == entry.call = "warning"

\* what the strategy of the run makes of an Update change
ResolvedContent(entry) ==
    CASE entry.strategy = "repo-wins" -> entry.change.content
      [] entry.strategy = "wiki-wins" -> entry.change.oldContent
      [] entry.strategy = "manual" -> entry.change.content

\* an Update with different contents on the two sides went through
UpdateApplied(entry) ==
    /\ entry.change.type = "update"
    /\ entry.error = NoError

SkippedUpdate(entry) ==
    /\ entry.strategy = "skip"
    /\ entry.change.type = "update"

\* C18: under the strategy skip an Update change never writes the page: the
\* change is not counted in changesApplied, no operation is recorded in the
\* transaction and none as success, while the error raised is not fatal (the
\* run is not ended by it) and is accounted as one per-change error and one
\* failure of the handler.
C18_SkipLeavesPageAndCountsFailure ==
    /\ \A i \in 1..Len(applyLog) :
         LET entry == applyLog[i]
         IN SkippedUpdate(entry)
              => /\ SelectSeq(entry.log, IsWrite) = <<>>
                 /\ entry.error \in {SkipError, BreakerOpenError}
                 /\ ~classify(entry.error).fatal
                 /\ entry.after.changesApplied = entry.before.changesApplied
                 /\ entry.after.operations = entry.before.operations
                 /\ entry.after.successes = entry.before.successes
                 /\ entry.after.errors = entry.before.errors + 1
                 /\ entry.after.failures = entry.before.failures + 1
    /\ (applyLog # <<>> /\ SkippedUpdate(applyLog[Len(applyLog)]))
         => /\ sePc = "catch" => syncError \in EnvironmentErrors
            /\ sePc \in {"apply", "operation"}
                 => workingCopy[applyLog[Len(applyLog)].change.wikiName
                                  \o <<Md>>]
                      = File(applyLog[Len(applyLog)].change.oldContent)

C18_Witness ==
    /\ sePc = "apply"
    /\ Len(applyLog) = 1
    /\ SkippedUpdate(applyLog[1])
    /\ applyLog[1].error = SkipError
    /\ ehContext.type = "CONFLICT"
    /\ result.changesApplied = 0
    /\ Len(result.errors) = 1
    /\ Len(failedOperations) = 1
    /\ transaction.operations = <<>>
    /\ changeIndex = 2
    /\ workingCopy[<<"a", ".md">>] = File(c2)

\* the last sync() call was ended by an exception in the steps between
\* beginTransaction and commit
RunAborted ==
    /\ sePc = "idle"
    /\ syncError # NoError

IsPhaseError(e) == "phase" \in DOMAIN e
IsChangeError(e) == "change" \in DOMAIN e

\* C19: the caller of an aborted run obtains a result with success = false
\* whose errors are the per-change errors accumulated so far followed by one
\* phase-level error.
C19_AbortedRunReturnsFailedResult ==
    RunAborted
      => (/\ syncCall.outcome = "returned"
          /\ ~syncCall.result.success
          /\ syncCall.result.errors # <<>>
          /\ \A i \in 1..Len(syncCall.result.errors) :
               IF i = Len(syncCall.result.errors)
               THEN IsPhaseError(syncCall.result.errors[i])
               ELSE IsChangeError(syncCall.result.errors[i]))

\* the error that ended the run: the one retryWithBackoff raised for the
\* clone or the push, or the one the loop raised for the last change
RunEndingError ==
    IF rwPc = "raised" THEN rwRaised
    ELSE FatalError(getErrorMessage(applyLog[Len(applyLog)].error))

RollbackFailed == syncCall.rollback \notin {"none", "returned"}

\* C20: sync() rejects with the error that ended the run, also when the
\* rollback fails, never with the rollback error; a clone that fails on every
\* attempt, before any checkpoint exists, makes sync() reject with the clone
\* error.
C20_OriginalErrorSurfaces ==
    (sePc = "idle" /\ syncCall.outcome = "raised")
      => /\ syncCall.error = RunEndingError
         /\ syncCall.error # RollbackError(syncCall.rollback)
         /\ RollbackFailed
              => /\ syncCall.rollback = "No checkpoint available for rollback"
                 /\ closedTx.checkpoints = <<>>
                 /\ rwErrors # <<>>
                 /\ syncCall.error = rwErrors[Len(rwErrors)]
                 /\ \/ Len(rwErrors) = DefaultMaxRetries
                    \/ ~classify(syncCall.error).retryable

C20_Witness ==
    /\ sePc = "idle"
    /\ syncCall.outcome = "raised"
    /\ RollbackFailed
    /\ rwInvocations = DefaultMaxRetries
    /\ rwErrors = <<WriteFailed, WriteFailed, WriteFailed>>
    /\ syncCall.error = WriteFailed
    /\ closedTx.status = "pending"

\* C21: on every exit path of sync() -- the normal return, an aborted run
\* and an aborted run whose rollback failed -- the removal of the working
\* copy has been attempted when sync() finishes; whether the removal
\* succeeded or failed, a run that completed returns its own result object
\* and an aborted run raises the error that ended it.
C21_CleanupAttemptedAndHarmless ==
    (sePc = "idle" /\ syncCall.outcome # "none")
      => /\ syncCall.cleanup \in {"removed", "failed"}
         /\ syncCall.cleanup = "removed" => workingCopy = NoDirectory
         /\ syncCall.outcome = "returned" <=> syncError = NoError
         /\ syncCall.outcome = "returned"
              => /\ syncCall.result = result
                 /\ syncCall.error = NoError
                 /\ closedTx.status = "committed"
         /\ syncCall.outcome = "raised"
              => /\ syncCall.error = syncError
                 /\ closedTx.status # "committed"

\* a run whose rollback failed and whose cleanup failed as well
C21_Witness ==
    /\ sePc = "idle"
    /\ syncCall.outcome = "raised"
    /\ syncCall.rollback \notin {"none", "returned"}
    /\ syncCall.cleanup = "failed"
    /\ syncCall.error \in EnvironmentErrors

\* the latest apply step of the run failed with an error classified fatal
FatalApply ==
    /\ applyLog # <<>>
    /\ applyLog[Len(applyLog)].error # NoError
    /\ classify(applyLog[Len(applyLog)].error).fatal

\* C22: when the apply of a change fails with an error classified fatal, the
\* run is aborted: the loop stops at that change (no later change is
\* applied), the push is not started, the transaction is never committed,
\* and the rollback of the still open transaction is attempted before
\* sync() raises.
C22_FatalApplyAbortsRun ==
    FatalApply
      => /\ sePc \in {"catch", "finally", "idle"}
         /\ changeIndex = Len(applyLog)
         /\ syncError = FatalError(classify(applyLog[Len(applyLog)].error).message)
         /\ sePc = "catch"
              => /\ isInTransaction
                 /\ transaction.id = transactionId
                 /\ transaction.status = "pending"
         /\ sePc = "idle" => syncCall.outcome = "raised"
         /\ sePc \in {"finally", "idle"}
              => /\ syncCall.rollback = "returned"
                 /\ tmCall.name = "rollback"
                 /\ closedTx.id = transactionId
                 /\ closedTx.status = "rolled-back"
                 /\ ~isInTransaction

\* a fatal error strikes after one change was applied and before the last
\* one was tried; the run has ended
C22_Witness ==
    /\ sePc = "idle"
    /\ FatalApply
    /\ result.changesApplied > 0
    /\ Len(applyLog) < Len(changes)

\* the apply steps of the run that failed, and those that succeeded
FailedApplies == {i \in 1..Len(applyLog) : applyLog[i].error # NoError}
SuccessfulApplies == {i \in 1..Len(applyLog) : applyLog[i].error = NoError}

\* every failed apply of the run is classified non-fatal, and the failures
\* do not exceed the threshold of the failure handler
OnlyToleratedFailures ==
    /\ \A i \in FailedApplies : ~classify(applyLog[i].error).fatal
    /\ Cardinality(FailedApplies) <= maxFailureThreshold

\* the run was ended by the clone or by the commit-and-push step: the
\* retried call raised, and the catch block rethrew its error
EndedByRetriedCall ==
    /\ rwPc = "raised"
    /\ syncError = rwRaised
    /\ syncCall.outcome = "raised"

\* C23: apply failures that are all classified non-fatal and do not exceed
\* the handler threshold do not by themselves abort the run: the loop goes on
\* with the next change after each of them, and unless the run is ended by
\* the clone or the push raising, the transaction is committed and sync()
\* returns success = true, changesApplied equal to the number of successful
\* applies, and one errors entry per failed apply.
C23_ToleratedFailuresDoNotAbort ==
    (sePc # "clone" /\ sePc # "checkpoint" /\ runs > 0
       /\ OnlyToleratedFailures)
      => /\ changeIndex = Len(applyLog) + 1
         /\ \A i \in FailedApplies :
              /\ applyLog[i].after.errors = applyLog[i].before.errors + 1
              /\ applyLog[i].after.changesApplied
                   = applyLog[i].before.changesApplied
         /\ sePc = "catch" => (rwPc = "raised" /\ syncError = rwRaised)
         /\ (sePc = "idle" /\ ~EndedByRetriedCall)
              => /\ syncCall.outcome = "returned"
                 /\ Len(applyLog) = Len(changes)
                 /\ closedTx.id = transactionId
                 /\ closedTx.status = "committed"
                 /\ syncCall.result.success
                 /\ syncCall.result.changesApplied
                      = Cardinality(SuccessfulApplies)
                 /\ Len(syncCall.result.errors) = Cardinality(FailedApplies)
                 /\ \A k \in 1..Len(syncCall.result.errors) :
                      \E i \in FailedApplies :
                        /\ syncCall.result.errors[k].change
                             = applyLog[i].change
                        /\ Cardinality({j \in FailedApplies : j <= i}) = k

\* a run in which one apply failed, the next change was applied after it,
\* and sync() returned
C23_Witness ==
    /\ sePc = "idle"
    /\ syncCall.outcome = "returned"
    /\ \E i \in FailedApplies : \E j \in SuccessfulApplies : i < j
    /\ syncCall.result.success
    /\ syncCall.result.changesApplied > 0
    /\ syncCall.result.errors # <<>>

\* the phase of a change in the order the ordering guarantee names: creates
\* for the wiki, updates for the wiki, creates for the repository, deletes
StatedPhase(c) ==
    CASE c.type = "create" /\ c.direction = "repo-to-wiki" -> 1
      [] c.type = "update" /\ c.direction = "repo-to-wiki" -> 2
      [] c.type = "create" /\ c.direction = "wiki-to-repo" -> 3
      [] OTHER -> 4

\* the loop of detectChanges that emits a change: the first one emits the
\* creates and the updates for the wiki, the second the creates for the
\* repository, the third the deletes
LoopOf(c) ==
    CASE c.type \in {"create", "update"} /\ c.direction = "repo-to-wiki" -> 1
      [] c.type = "create" /\ c.direction = "wiki-to-repo" -> 2
      [] OTHER -> 3

\* the changes applied so far are the first changes of the list, in its order
AppliedInListOrder ==
    /\ Len(applyLog) <= Len(changes)
    /\ \A i \in 1..Len(applyLog) : applyLog[i].change = changes[i]
    /\ sePc \in {"apply", "operation"} => changeIndex = Len(applyLog) + 1

\* the position of a logical name among the files read from the checkout
RepoPosition(name) ==
    CHOOSE i \in 1..Len(repoFileMap) : repoFileMap[i].key = name

\* C24 as stated: the list is ordered in four phases, so that no Update
\* precedes a Create for the wiki.
C24_AsStated ==
    \A i, j \in 1..Len(changes) :
      i < j => StatedPhase(changes[i]) <= StatedPhase(changes[j])

\* C24: the changes are applied one at a time in list order, and the list is
\* ordered in three phases: first the Creates and Updates for the wiki, one
\* per logical name and interleaved in the order in which the names were
\* first read from the checkout, then the Creates for the repository, then
\* the Deletes.
C24_ThreePhasesInMapOrder ==
    /\ AppliedInListOrder
    /\ \A i, j \in 1..Len(changes) :
         i < j => /\ LoopOf(changes[i]) <= LoopOf(changes[j])
                  /\ changes[i].wikiName = changes[j].wikiName
                       => LoopOf(changes[i]) # LoopOf(changes[j])
    /\ sePc \in {"apply", "operation"} /\ applyLog = <<>>
         => \A i, j \in 1..Len(changes) :
              (i < j /\ LoopOf(changes[i]) = 1 /\ LoopOf(changes[j]) = 1)
                => RepoPosition(changes[i].wikiName)
                     < RepoPosition(changes[j].wikiName)

\* a run that applied an Update for the wiki before a Create for the wiki
C24_Witness ==
    /\ sePc = "idle"
    /\ syncCall.outcome = "returned"
    /\ Len(applyLog) = Len(changes)
    /\ \E i, j \in 1..Len(applyLog) :
         /\ i < j
         /\ applyLog[i].change.type = "update"
         /\ applyLog[i].error = NoError
         /\ applyLog[j].change.type = "create"
         /\ applyLog[j].change.direction = "repo-to-wiki"
         /\ applyLog[j].error = NoError

\* a relative markdown path without adjacent separators and without hyphen
StatedPath(p) ==
    /\ endsWithMd(p)
    /\ p[1] # Sep
    /\ \A i \in 1..Len(p) : p[i] # Hyphen
    /\ \A i \in 1..(Len(p) - 1) : ~(p[i] = Sep /\ p[i + 1] = Sep)

\* such a path whose file has a base name: before the final extension stands
\* neither a separator nor another extension
NamedPath(p) ==
    /\ StatedPath(p)
    /\ Len(p) >= 2
    /\ p[Len(p) - 1] \notin {Sep, Md}

\* the calls that convert a path to a name and are followed by another call,
\* which converts the name back
ConvertedBack ==
    {i \in 1..(Len(fhCalls) - 1) : fhCalls[i].name = "convertPathToWikiName"}

HyphenatedName(n) ==
    /\ n # <<>>
    /\ \A i \in 1..Len(n) : n[i] \notin {Sep, Md}
    /\ n[1] # Hyphen /\ n[Len(n)] # Hyphen
    /\ \A i \in 1..(Len(n) - 1) : ~(n[i] = Hyphen /\ n[i + 1] = Hyphen)

\* the path the naming convention gives a name: the first hyphen becomes a
\* separator, later hyphens stay, the extension is added and the base
\* directory prefixed
firstHyphenOnly(n, baseDir) ==
    LET hyphens == {i \in 1..Len(n) : n[i] = Hyphen}
        first == CHOOSE i \in hyphens : \A k \in hyphens : i <= k
        file == IF hyphens = {} THEN n \o <<Md>>
                ELSE [i \in 1..Len(n) |-> IF i = first THEN Sep ELSE n[i]]
                       \o <<Md>>
    IN IF baseDir # <<>> THEN baseDir \o <<Sep>> \o file ELSE file

\* C26: convertWikiNameToPath turns only the first hyphen of a page name into
\* a separator and keeps the later ones; a name without hyphen becomes the
\* name with the extension; the base directory, when given, is prefixed.
C26_FirstHyphenOnly ==
    \A i \in 1..Len(fhCalls) :
      (fhCalls[i].name = "convertWikiNameToPath"
         /\ HyphenatedName(fhCalls[i].input))
        => fhCalls[i].output
             = firstHyphenOnly(fhCalls[i].input, fhCalls[i].baseDir)

\* the latest call went through a CLOSED breaker, its operation failed, and
\* the breaker is OPEN after it
OpenedFromClosed ==
    /\ cbPc = "idle"
    /\ cbCall.preState = "CLOSED"
    /\ cbCall.outcome = "operation error"
    /\ state = "OPEN"

RestoreReads ==
    SelectSeq(tmCall.remoteLog, LAMBDA entry : entry.call = "getFileContent")

\* the writes of the latest manager call that were rejected
RejectedWrites ==
    {k \in 1..Len(tmCall.remoteLog) :
       /\ tmCall.remoteLog[k].call \in {"updateFile", "createFile"}
       /\ ~tmCall.remoteLog[k].ok}

\* C28: the restoration of rollback() is best effort per file: when the
\* update or creation of a checkpointed file is rejected, the restoration of
\* every remaining file of the checkpoint is still attempted, rollback()
\* returns normally, and the transaction ends rolled back.
C28_RestorationIsBestEffortPerFile ==
    (tmCall.name = "rollback" /\ RejectedWrites # {})
      => LET first == closedTx.checkpoints[1].repoState
         IN /\ tmCall.outcome = "returned"
            /\ closedTx.status = "rolled-back"
            /\ ~isInTransaction
            /\ Len(RestoreReads) = Len(first)
            /\ \A i \in 1..Len(first) : RestoreReads[i].path = first[i].path
            /\ \A k \in RejectedWrites :
                 remote[tmCall.remoteLog[k].path]
                   = tmCall.remoteBefore[tmCall.remoteLog[k].path]
                 \/ \E j \in (k + 1)..Len(tmCall.remoteLog) :
                      /\ tmCall.remoteLog[j].path = tmCall.remoteLog[k].path
                      /\ tmCall.remoteLog[j].ok

\* the write for the first file was rejected, and the second file was
\* restored after it
C28_Witness ==
    /\ tmCall.name = "rollback"
    /\ tmCall.outcome = "returned"
    /\ closedTx.status = "rolled-back"
    /\ \E k \in RejectedWrites :
         \E j \in (k + 1)..Len(tmCall.remoteLog) :
           /\ tmCall.remoteLog[j].call \in {"updateFile", "createFile"}
           /\ tmCall.remoteLog[j].ok
           /\ tmCall.remoteLog[j].path # tmCall.remoteLog[k].path

\* the catch block of sync() calls rollback() in this step
RollbackCalled ==
    /\ sePc = "catch"
    /\ transactionId # 0
    /\ isInTransaction
    /\ tmCall'.name = "rollback"

\* C29: rollback() never mutates the wiki: the wiki repository and the
\* working copy cloned from it are the same before and after the call,
\* whatever the rollback restores in the primary repository.
C29_RollbackLeavesWikiUnchanged ==
    [][RollbackCalled => (wiki' = wiki /\ workingCopy' = workingCopy)]_vars

\* a rollback has restored files of the primary repository while the clone
\* still holds the pages the run wrote, which the wiki does not hold
C29_Witness ==
    /\ sePc = "finally"
    /\ syncCall.rollback = "returned"
    /\ remote # tmCall.remoteBefore
    /\ workingCopy # wiki
    /\ \E i \in 1..Len(applyLog) :
         /\ applyLog[i].error = NoError
         /\ applyLog[i].change.direction = "repo-to-wiki"

\* C30: commit-and-push of the wiki is invoked if and only if changesApplied
\* is greater than 0 when the apply loop has ended; the transaction is
\* committed only after that push succeeded or was skipped; a push that
\* fails after its retries leaves the transaction uncommitted and leads to
\* the attempt to roll it back.
C30_PushIffChangesAndCommitAfterPush ==
    runs > 0
      => /\ syncCall.push # "none"
              => /\ changeIndex > Len(changes)
                 /\ Len(applyLog) = Len(changes)
                 /\ result.changesApplied > 0
         /\ sePc = "push" => syncCall.push = "started"
         /\ sePc = "commit" => syncCall.push = "resolved"
         /\ (closedTx.id = transactionId /\ closedTx.status = "committed")
              => /\ syncCall.push = "resolved" <=> result.changesApplied > 0
                 /\ syncCall.push = "none" <=> result.changesApplied = 0
                 /\ syncCall.push = "resolved" => wiki = workingCopy
                                                  \/ sePc = "idle"
         /\ (sePc = "idle" /\ syncCall.outcome = "returned")
              => /\ closedTx.id = transactionId
                 /\ closedTx.status = "committed"
         /\ syncCall.push = "raised"
              => /\ sePc \in {"catch", "finally", "idle"}
                 /\ syncError = rwRaised
                 /\ \/ Len(rwErrors) = DefaultMaxRetries
                    \/ ~classify(syncError).retryable
                 /\ sePc = "catch"
                      => /\ transaction.id = transactionId
                         /\ transaction.status = "pending"
                 /\ sePc \in {"finally", "idle"}
                      => /\ tmCall.name = "rollback"
                         /\ syncCall.rollback = "returned"
                         /\ closedTx.id = transactionId
                         /\ closedTx.status = "rolled-back"
                 /\ sePc = "idle" => syncCall.outcome = "raised"

\* the push failed at every one of its attempts; the run was rolled back
C30_Witness ==
    /\ sePc = "idle"
    /\ syncCall.push = "raised"
    /\ Len(rwErrors) = DefaultMaxRetries
    /\ result.changesApplied > 0
    /\ closedTx.id = transactionId
    /\ closedTx.status = "rolled-back"
    /\ syncCall.outcome = "raised"

-----------------------------------------------------------------------------
\* the applies of the current call, before the i-th, that the breaker let
\* through and that failed
FailedBefore(i) ==
    Cardinality({j \in 1..(i - 1) :
                   /\ applyLog[j].error # NoError
                   /\ applyLog[j].error # BreakerOpenError})

\* a sync() call that has not reached its apply loop
BeforeApplyLoop == sePc \in {"clone", "checkpoint"}

\* C31 as stated: every sync() call starts with a CLOSED breaker that has
\* recorded no failure, and a change is rejected by the breaker only after
\* failures of the same call reached the threshold
C31_AsStated ==
    /\ BeforeApplyLoop => (state = "CLOSED" /\ failureCount = 0)
    /\ \A i \in 1..Len(applyLog) :
         applyLog[i].error = BreakerOpenError => FailedBefore(i) >= threshold

\* C31: the breaker is state of the engine, built once by the constructor:
\* the first sync() call starts with it CLOSED and without failures, a
\* later call starts with the state and the count the earlier calls left,
\* the count is the number of failed applies since construction or the last
\* reset whatever the call they were made in, and a change is rejected by
\* the breaker only when the failures carried into the call and those of the
\* call together reached the threshold
C31_BreakerOutlivesCalls ==
    /\ BeforeApplyLoop =>
         /\ state = syncCall.previous.breaker.state
         /\ failureCount = syncCall.previous.breaker.failureCount
    /\ (BeforeApplyLoop /\ runs = 1) =>
         (state = "CLOSED" /\ failureCount = 0)
    /\ failureCount = cbFailedCalls
    /\ \A i \in 1..Len(applyLog) :
         applyLog[i].error = BreakerOpenError =>
           syncCall.previous.breaker.failureCount + FailedBefore(i)
             >= threshold

\* a change of the second call was rejected by the breaker although fewer
\* applies than the threshold failed in that call
C31_Witness ==
    /\ runs = 2
    /\ syncCall.previous.breaker.failureCount > 0
    /\ \E i \in 1..Len(applyLog) :
         /\ applyLog[i].error = BreakerOpenError
         /\ FailedBefore(i) < threshold


-----------------------------------------------------------------------------
\* the checkpoints created so far: those of the open transaction and those
\* the manager's map holds
Created ==
    {transaction.checkpoints[i] : i \in 1..Len(transaction.checkpoints)}
      \cup {checkpoints[h] : h \in DOMAIN checkpoints}

Records(listing) == {listing[i] : i \in 1..Len(listing)}

\* two checkpoints whose snapshots contain the same records
SameRecords(a, b) ==
    /\ Records(a.repoState) = Records(b.repoState)
    /\ Records(a.wikiState) = Records(b.wikiState)

\* what a checkpoint lists: the path and sha of each file and the name and
\* content of each page, in the order of the snapshots
Listed(cp) ==
    << [i \in 1..Len(cp.repoState) |->
          <<cp.repoState[i].path, cp.repoState[i].sha>>],
       [i \in 1..Len(cp.wikiState) |->
          <<cp.wikiState[i].name, cp.wikiState[i].content>>] >>

\* C32 as stated: two checkpoints whose snapshots contain the same records,
\* in whatever order, have the same fingerprint
C32_AsStated ==
    \A a, b \in Created : SameRecords(a, b) => a.hash = b.hash

\* C32: the fingerprint is taken over the snapshots as lists.  Two
\* checkpoints that list the same paths with the same shas and the same
\* pages with the same content, in the same order, have the same
\* fingerprint, whatever the content of the files; two checkpoints that
\* list different things, or the same things in a different order, have
\* different digest inputs (the model keeps the input of the digest as the
\* fingerprint)
C32_FingerprintOfListings ==
    \A a, b \in Created : (Listed(a) = Listed(b)) <=> (a.hash = b.hash)

\* the open transaction holds two checkpoints with the same files and the
\* same pages, both listed in a different order, and different
\* fingerprints
C32_Witness ==
    /\ Len(transaction.checkpoints) = 2
    /\ SameRecords(transaction.checkpoints[1], transaction.checkpoints[2])
    /\ transaction.checkpoints[1].repoState
         # transaction.checkpoints[2].repoState
    /\ transaction.checkpoints[1].wikiState
         # transaction.checkpoints[2].wikiState
    /\ transaction.checkpoints[1].hash # transaction.checkpoints[2].hash


-----------------------------------------------------------------------------
\* sync() has terminated: it returned or raised, and no call is running
Terminated == sePc = "idle" /\ syncCall.outcome \in {"returned", "raised"}

\* C33: whenever sync() has terminated, by returning or by raising, also
\* when rollback() itself raised, the manager holds no open transaction: the
\* transaction of the call was detached by commit() or by rollback(), so
\* that the next sync() on the engine begins without live transaction.
C33_NoOpenTransactionAfterSync ==
    /\ Terminated =>
         /\ ~isInTransaction
         /\ closedTx.id = transactionId
         /\ syncCall.outcome = "returned" => closedTx.status = "committed"
         /\ syncCall.outcome = "raised" =>
              /\ syncCall.rollback # "none"
              /\ closedTx.status \in {"rolled-back", "pending"}
    /\ sePc = "clone" => (tmCall.name = "beginTransaction" /\ ~tmCall.wasOpen)

\* the second call on the engine raised after its rollback raised, and no
\* transaction is open
C33_Witness ==
    /\ Terminated
    /\ runs = 2
    /\ syncCall.outcome = "raised"
    /\ syncCall.rollback = "No checkpoint available for rollback"
    /\ closedTx.status = "pending"
    /\ ~isInTransaction


-----------------------------------------------------------------------------
\* the apply loop of a sync() call was entered and the call's transaction is
\* open: the handler of the call exists
LoopEntered == isInTransaction /\ transaction.checkpoints # <<>>

\* the per-change entries of result.errors
ChangeErrors ==
    Cardinality({i \in 1..Len(result.errors) : IsChangeError(result.errors[i])})

\* C34: after each processed change, result.changesApplied = the number of
\* operations recorded in the open transaction = the handler's success
\* count, the number of per-change entries of result.errors = the handler's
\* failure count, and the two add up to the number of changes processed.
C34_ApplyLoopAccounting ==
    LoopEntered =>
      /\ result.changesApplied = Len(transaction.operations)
      /\ result.changesApplied = getSummary.successCount
      /\ ChangeErrors = getSummary.failureCount
      /\ result.changesApplied + ChangeErrors = Len(applyLog)
      /\ sePc = "apply" => Len(applyLog) = changeIndex - 1

\* a call that applied a change, then failed one with a fatal error, and is
\* about to roll back
C34_Witness ==
    /\ LoopEntered
    /\ sePc = "catch"
    /\ result.changesApplied > 0
    /\ ChangeErrors > 0
    /\ applyLog[Len(applyLog)].error = Unauthorized


-----------------------------------------------------------------------------
\* the call left its loop through an exception
LoopAborted == sePc = "catch"

\* C35: in sync(), whose handler has continueOnError = true and the
\* threshold 10, a call whose applies fail with non-fatal errors only is
\* aborted exactly when the 11th failure is recorded, by the error
\* recordFailure raises; whenever recordFailure returned, which is when line
\* 111 reads shouldContinue(), shouldContinue() is true, so that no call ends
\* with the 'Fatal error or too many failures' error of that line.
C35_AbortAtEleventhFailure ==
    /\ LoopAborted <=>
         Len(failedOperations) = DefaultMaxFailureThreshold + 1
    /\ LoopAborted =>
         /\ syncError = ThresholdError
         /\ lastRecordFailure = "Maximum failure threshold exceeded"
         /\ ChangeErrors = DefaultMaxFailureThreshold + 1
    /\ lastRecordFailure = "returned" => shouldContinue
    /\ \A i \in 1..Len(applyLog) : ~classify(applyLog[i].error).fatal

\* twelve conflicting updates under the strategy skip: the eleventh failure
\* ended the call, the twelfth change was not tried
C35_Witness ==
    /\ LoopAborted
    /\ Len(changes) = 12
    /\ changeIndex = 11
    /\ Len(applyLog) = 11
    /\ getSummary.failureCount = 11
    /\ applyLog[1].error = SkipError
    /\ applyLog[11].error = BreakerOpenError


-----------------------------------------------------------------------------
\* C36: classify returns the category VALIDATION_ERROR for no input: no
\* status, no code and no pattern of the message maps to it.  The table of
\* recovery strategies makes two categories fatal, AUTH_ERROR and
\* VALIDATION_ERROR, so that every context classify returns as fatal has the
\* category AUTH_ERROR.
C36_NeverValidationError ==
    /\ ehContext # NoContext =>
         /\ ehContext.type # "VALIDATION_ERROR"
         /\ ehContext.fatal <=> ehContext.type = "AUTH_ERROR"
    /\ {t \in ErrorTypes : getRecoveryStrategy(t).fatal}
         = {"AUTH_ERROR", "VALIDATION_ERROR"}

\* the error of the API for a request that fails validation, status 422, was
\* classified: its category is UNKNOWN, retryable and not fatal
C36_Witness ==
    /\ ehError.kind = "Error"
    /\ ehError.status = [type |-> "number", value |-> 422, text |-> ""]
    /\ ehError.message = <<"failed">>
    /\ ehContext.type = "UNKNOWN"
    /\ ehContext.retryable
    /\ ~ehContext.fatal


-----------------------------------------------------------------------------
\* a change that is no conflicting Update and whose apply step succeeds when
\* it is executed: the Create of a page for a new file
AppliesCleanly(c) ==
    /\ c.type = "create"
    /\ c.direction = "repo-to-wiki"
    /\ applyChange(c, NoError).error = NoError

\* C37: under the strategy skip, in a call that stays within the failure
\* threshold of the handler, every change that is no conflicting Update and
\* whose apply step would succeed is applied, however many skipped conflicts
\* precede it in the change list.
C37_SkippedConflictsBlockNothing ==
    (config.conflictStrategy = "skip"
       /\ getSummary.failureCount <= DefaultMaxFailureThreshold)
      => \A i \in 1..Len(applyLog) :
            AppliesCleanly(applyLog[i].change) => applyLog[i].error = NoError


-----------------------------------------------------------------------------
\* the latest sync() call was rolled back: rollback() returned and the
\* manager was not called since
RolledBack ==
    /\ sePc \in {"finally", "idle"}
    /\ syncCall.rollback = "returned"
    /\ tmCall.name = "rollback"

\* the paths of the first checkpoint's primary snapshot
CheckpointPaths ==
    {closedTx.checkpoints[1].repoState[i].path :
       i \in 1..Len(closedTx.checkpoints[1].repoState)}

\* the wiki-to-repo Creates the call applied: each added a file to the
\* primary store
CreatedInRepo ==
    {i \in 1..Len(applyLog) :
       /\ applyLog[i].change.type = "create"
       /\ applyLog[i].change.direction = "wiki-to-repo"
       /\ applyLog[i].error = NoError}

\* C38: rollback() calls the API only for paths of the first checkpoint's
\* primary snapshot; a file of the primary store that a wiki-to-repo Create
\* of the rolled-back call added, and whose path the checkpoint does not
\* list, is neither deleted nor changed by rollback and exists afterwards
\* with the content the Create gave it.
C38_RollbackKeepsCreatedFiles ==
    RolledBack =>
      /\ \A k \in 1..Len(tmCall.remoteLog) :
           tmCall.remoteLog[k].path \in CheckpointPaths
      /\ \A i \in CreatedInRepo :
           applyLog[i].change.filePath \notin CheckpointPaths
             => /\ remote[applyLog[i].change.filePath]
                     = File(orEmpty(applyLog[i].change.content))
                /\ tmCall.remoteBefore[applyLog[i].change.filePath]
                     = remote[applyLog[i].change.filePath]

\* a call created a file from a page, failed later and was rolled back; the
\* rollback wrote to the repository and the created file is still there
C38_Witness ==
    /\ RolledBack
    /\ sePc = "idle"
    /\ \E i \in CreatedInRepo :
         /\ applyLog[i].change.filePath \notin CheckpointPaths
         /\ remote[applyLog[i].change.filePath].present
    /\ \E k \in 1..Len(tmCall.remoteLog) :
         tmCall.remoteLog[k].call # "getFileContent" /\ tmCall.remoteLog[k].ok


-----------------------------------------------------------------------------
\* the path of the repository under which the file of a checkpoint entry is
\* stored
StoredPath(file) == pathJoin(<<config.syncFolder, file.path>>)

\* the write calls rollback() made for a checkpoint entry
RestoreWrites(file) ==
    {k \in 1..Len(tmCall.remoteLog) :
       /\ tmCall.remoteLog[k].call \in {"updateFile", "createFile"}
       /\ tmCall.remoteLog[k].path \in {file.path, StoredPath(file)}}

\* C39: when a sync() call is rolled back, rollback() makes no updateFile
\* and no createFile call for a file of the primary store that the call
\* did not modify, i.e. that holds, when rollback() starts, the content it
\* held when the checkpoint was taken.
C39_UnmodifiedFilesGetNoWrite ==
    RolledBack =>
      \A i \in 1..Len(closedTx.checkpoints[1].repoState) :
         LET file == closedTx.checkpoints[1].repoState[i]
         IN tmCall.remoteBefore[StoredPath(file)] = File(file.content)
              => RestoreWrites(file) = {}


-----------------------------------------------------------------------------
\* the latest execute() call was rejected by the OPEN breaker
FailedFast == cbCall.outcome = "Circuit breaker is OPEN"

\* C40: for a breaker with threshold >= 1, in every reachable state, CLOSED
\* implies failureCount < threshold, and OPEN and HALF_OPEN imply
\* failureCount >= threshold; a call rejected while the breaker is OPEN
\* invokes no operation and changes neither failureCount nor
\* lastFailureTime.
C40_StateMatchesCount ==
    /\ threshold >= 1
    /\ state = "CLOSED" => failureCount < threshold
    /\ state \in {"OPEN", "HALF_OPEN"} => failureCount >= threshold
    /\ FailedFast =>
         /\ cbCall.preState = "OPEN"
         /\ state = "OPEN"
         /\ ~cbCall.invoked
         /\ failureCount = cbCall.preCount
         /\ lastFailureTime = cbCall.preLast

\* a breaker with threshold 2 that opened, let a trial call through, was
\* opened again by its failure and then rejected a call
C40_Witness ==
    /\ threshold = 2
    /\ FailedFast
    /\ failureCount = 3
    /\ lastFailureTime > 0
    /\ now > lastFailureTime

====
